---- MODULE Spec2Model ----
(***************************************************************************)
(* QuietHire orchestration pipeline: the Career-Page Crawl, Company         *)
(* Discovery and Continuous Discovery workflows, the discovered_urls       *)
(* upsert and the ClickHouse jobs table.                                    *)
(*                                                                         *)
(* Each workflow is a deterministic function that blocks only on the       *)
(* result of an activity or child workflow.  An action of the model is one *)
(* resumption of the workflow: it consumes the result the workflow was     *)
(* blocked on, runs the code up to the next blocking Get, and records the  *)
(* activities scheduled on the way.                                        *)
(***************************************************************************)
EXTENDS Integers, Sequences, FiniteSets, TLC

VARIABLES
    \* ---- CareerPageCrawlWorkflow ----
    cpc,        \* the Get the workflow is blocked on, or "init" / "done"
    cAttempt,   \* attempt number of the activity being awaited (retry policy)
    cNumLinks,  \* len(jobLinks) as returned by ExtractJobLinks (before the cap)
    cIdx,       \* loop index i (1-based) into the retained jobLinks
    cOutcome,   \* per retained link: what happened to it
    cJobs,      \* the jobs slice built by the loop
    cBatch,     \* the jobs argument of the StoreJobsInClickHouse call (<<>> until called)
    cResult,    \* the CareerPageCrawlResult being built / returned
    cRetErr,    \* the error value returned by the workflow function
    cCmds,      \* activities scheduled so far, in order
    \* ---- CompanyDiscoveryWorkflow ----
    dpc,            \* "init", the fan-out step whose futures are awaited, or "done"
    dInput,         \* DiscoveryInput
    dFut,           \* the futures of the current step, in launch order
    dGet,           \* index of the future the workflow's Get is blocked on
    dAllCompanies,  \* allCompanies
    dAllPages,      \* allCareerPages
    dResult,        \* the DiscoveryResult being built / returned
    dCrawlSuccesses,\* crawlSuccesses
    dRetErr,        \* the error value returned by the workflow function
    dCancelled,     \* whether the run's context has been cancelled
    dQueueErrLogged, \* whether "Failed to queue URLs" has been logged
    \* ---- ContinuousDiscoveryWorkflow, the companies table and the clock ----
    now,            \* wall-clock time, in days
    lastCrawled,    \* companies.last_crawled_at, per company domain
    kpc,            \* "idle", "awaitStale", "awaitChildren" or "done"
    kRuns,          \* runs triggered so far
    kInput,         \* ContinuousDiscoveryInput of the current run
    kAttempt,       \* attempt number of the run's GetStaleCompanies activity
    kListed,        \* whether GetStaleCompanies has returned its list in this run
    kStale,         \* staleCompanies
    kFut,           \* discoveryFutures, in spawn order
    kGet,           \* index of the child future the workflow's Get is blocked on
    kUpd,           \* per domain: state of the run's UpdateCompanyLastCrawled activity
    kTotals,        \* totalCompanies and totalURLs
    kRetErr,        \* the error value returned by the workflow function
    \* ---- QueueURLsForCrawling and the discovered_urls table ----
    qConnected,     \* a.PostgreSQL != nil
    qpc,            \* "idle", "loop" or "returned"
    qPages,         \* the pages argument
    qIdx,           \* position of the range loop
    queued,         \* the queued counter
    qRet,           \* the returned count
    qCalls,         \* calls of the activity so far
    qRows,          \* discovered_urls, in insertion order
    qNextId,        \* the SERIAL sequence of discovered_urls.id
    qLog,           \* history: the <<url, confidence, priority>> of every executed upsert
    qUpserts,       \* history: upserts that succeeded during the current call
    \* ---- the ClickHouse jobs table ----
    jRows,          \* rows held by the table's data parts
    jSeq,           \* number of INSERTs so far (orders the parts)
    jWritten,       \* history: every row ever inserted
    \* ---- the company discovery activities and the companies table ----
    coConnected,    \* a.PostgreSQL != nil
    coRows,         \* rows of the companies table
    coLast,         \* the discovery activity that completed last, and what it returned
    coCalls,        \* activity invocations so far
    \* ---- the Continuous Discovery schedule ----
    sExists,        \* the schedule "continuous-discovery-schedule" exists
    sFatal,         \* runs of the scheduling program that ended in log.Fatalf
    sFires,         \* times the cron spec has fired
    sSkipped,       \* firings that started nothing
    sRunning,       \* the workflow runs in progress (by firing number)
    \* ---- the discovered_urls upsert statement ----
    tRows,    \* discovered_urls, in insertion order
    tPrev,    \* the table before the last statement
    tRow,    \* the row the last statement proposed
    tCount,   \* statements executed so far
    \* ---- the proxy manager ----
    proxies,    \* pm.proxies: Country, IsHealthy, FailCount of each proxy, by position
    currentIndex,    \* pm.currentIndex
    mu,    \* pm.mu: the goroutine holding Lock, the goroutines holding RLock
    hpc,    \* the manager method each handler is in, with its arguments
    gpc,    \* position of each proxy's health-check goroutine
    gVal,    \* its locals: isHealthy, and the FailCount it read
    marked,    \* history: MarkProxyFailure calls per proxy since a success was last recorded
               \* for it (each of the two writes of a passing health check counts)
    lastRet,    \* history: the last return of GetNextProxy / GetProxyByCountry
    returns,    \* history: the proxies GetNextProxy returned, in order
    pCalls,    \* manager calls so far
    pRounds,   \* health-check ticks so far
    \* ---- the crawl coordinator workflow ----
    wpc,    \* position of CrawlCoordinatorWorkflow: start, collect or done
    wUrls,    \* len(urls), the URLs being urls[0] .. urls[len-1]
    wFut,    \* futures: the batch urls[start:end] and the state of its activity
    wGet,    \* position of the fan-in loop
    wResult,    \* result
    wRetErr    \* the error the workflow returned

jobsVars == <<jRows, jSeq, jWritten>>

compVars == <<coConnected, coRows, coLast, coCalls>>

schedVars == <<sExists, sFatal, sFires, sSkipped, sRunning>>

queueVars == <<qConnected, qpc, qPages, qIdx, queued, qRet, qCalls, qRows, qNextId, qLog, qUpserts>>

contVars == <<now, lastCrawled, kpc, kRuns, kInput, kAttempt, kListed, kStale, kFut, kGet, kUpd, kTotals, kRetErr>>

discVars == <<dpc, dInput, dFut, dGet, dAllCompanies, dAllPages, dResult, dCrawlSuccesses, dRetErr, dCancelled, dQueueErrLogged>>

upsertVars == <<tRows, tPrev, tRow, tCount>>

proxyVars == <<proxies, currentIndex, mu, hpc, gpc, gVal, marked, lastRet, returns, pCalls, pRounds>>

coordVars == <<wpc, wUrls, wFut, wGet, wResult, wRetErr>>

nonCrawlVars == <<discVars, contVars, queueVars, jobsVars, compVars, schedVars, upsertVars, proxyVars, coordVars>>

crawlVars == <<cpc, cAttempt, cNumLinks, cIdx, cOutcome, cJobs, cBatch, cResult, cRetErr, cCmds>>

nonDiscVars == <<crawlVars, contVars, queueVars, jobsVars, compVars, schedVars, upsertVars, proxyVars, coordVars>>

nonContVars == <<crawlVars, discVars, queueVars, jobsVars, compVars, schedVars, upsertVars, proxyVars, coordVars>>

nonQueueVars == <<crawlVars, discVars, contVars, jobsVars, compVars, schedVars, upsertVars, proxyVars, coordVars>>

nonJobsVars == <<crawlVars, discVars, contVars, queueVars, compVars, schedVars, upsertVars, proxyVars, coordVars>>

nonCompVars == <<crawlVars, discVars, contVars, queueVars, jobsVars, schedVars, upsertVars, proxyVars, coordVars>>

nonSchedVars == <<crawlVars, discVars, contVars, queueVars, jobsVars, compVars, upsertVars, proxyVars, coordVars>>

nonUpsertVars == <<crawlVars, discVars, contVars, queueVars, jobsVars, compVars, schedVars, proxyVars, coordVars>>

nonProxyVars == <<crawlVars, discVars, contVars, queueVars, jobsVars, compVars, schedVars, upsertVars, coordVars>>

nonCoordVars == <<crawlVars, discVars, contVars, queueVars, jobsVars, compVars, schedVars, upsertVars, proxyVars>>

vars == <<crawlVars, discVars, contVars, queueVars, jobsVars, compVars, schedVars, upsertVars, proxyVars, coordVars>>

\* ---------------------------------------------------------------- bounds
\* Largest number of job links ExtractJobLinks returns in the model.
MaxLinks == 12
\* Most companies all discovery sources of one run return together.
MaxCompanies == 2
\* Most companies / URL candidates a single task returns.
MaxPerTask == 1
\* Last day of the modelled clock.
MaxTime == 3
\* Number of Continuous Discovery runs the trigger starts.
MaxRuns == 2
\* INSERTs into the jobs table, and the largest version written.
MaxWrites == 3
MaxVersion == 2
\* Invocations of the company discovery activities, and most companies in one
\* code-host search response.
MaxDiscoverCalls == 3
MaxPerResponse == 2
\* Firings of the schedule's cron spec, and runs of the scheduling program.
MaxFires == 8
MaxCreates == 3
\* Proxies in the manager's list.
NumProxies == 2
\* Calls of manager methods, and health-check ticks.
MaxProxyCalls == 4
MaxRounds == 1
\* The failure count from which a proxy that is not healthy is passed over.
FailLimit == 3
\* Most URLs DiscoverJobURLs returns.
MaxURLs == 25
\* batchSize := 10
batchSize == 10
\* Upsert statements executed on a stored table.
MaxUpserts == 1
\* Calls of QueueURLsForCrawling, and most pages per call.
MaxCalls == 2
MaxQueuePages == 2
\* Staleness thresholds (in days) a run is started with.
MaxThreshold == 1
\* The cap on concurrently running child crawls that the fan-out is held to
\* (10 in the design's example), scaled to the candidate bound below.
FanOutCap == 1
\* Most URL candidates all page/subdomain tasks of one run return together.
MaxPages == 2

\* ------------------------------------------------------ program constants
MaxJobsToCrawl == 5
MaximumAttempts == 3
QualityThreshold == 70

\* Quality scores the parser can attach to a job (below, at and above the gate).
Scores == {60, 80}

Min(a, b) == IF a < b THEN a ELSE b

Max(a, b) == IF a > b THEN a ELSE b

\* ------------------------------------------------ CareerPageCrawlWorkflow

\* result := &CareerPageCrawlResult{URL: input.URL, Success: false}
NewCrawlResult == [Success |-> FALSE, JobsFound |-> 0, JobsStored |-> 0, ErrorMessage |-> ""]

\* The cap left out: every extracted link is crawled.
RetainedNoCap(n) == n

\* jobLinks = jobLinks[:maxJobsToCrawl] when len(jobLinks) > maxJobsToCrawl
Retained(n) == Min(n, MaxJobsToCrawl)

\* The parser's output for one job page; it may or may not carry the source fields.
ParsedJobs ==
    {[score |-> s, source_url |-> t, source_platform |-> t] : s \in Scores, t \in {"", "parser"}}

\* Defaults source_url to the crawled link and source_platform to "career_page".
Normalize(job, link) ==
    [score |-> job.score,
     link |-> link,
     source_url |-> IF job.source_url = "" THEN "link" ELSE job.source_url,
     source_platform |-> IF job.source_platform = "" THEN "career_page" ELSE job.source_platform]

CrawlInit ==
    /\ cpc = "init"
    /\ cAttempt = 0
    /\ cNumLinks = 0
    /\ cIdx = 0
    /\ cOutcome = [i \in 1..MaxJobsToCrawl |-> "none"]
    /\ cJobs = <<>>
    /\ cBatch = <<>>
    /\ cResult = NewCrawlResult
    /\ cRetErr = "unset"
    /\ cCmds = <<>>

\* Activities are scheduled with RetryPolicy{MaximumAttempts: 3}: a failed attempt
\* is retried by the engine until the third one, whose error the workflow sees.
CrawlAwaiting == cpc \in {"awaitPage", "awaitLinks", "awaitJobPage", "awaitParse", "awaitStore"}

CrawlAttemptFails ==
    /\ CrawlAwaiting
    /\ cAttempt < MaximumAttempts
    /\ cAttempt' = cAttempt + 1
    /\ UNCHANGED <<cpc, cNumLinks, cIdx, cOutcome, cJobs, cBatch, cResult, cRetErr, cCmds>>
    /\ UNCHANGED nonCrawlVars

\* An activity error reaches the workflow only once the attempts are used up.
CrawlTaskError == CrawlAwaiting /\ cAttempt = MaximumAttempts

\* A failed step returned as a workflow error: return nil, err.
CrawlReturnErr(res) ==
    /\ cResult' = res
    /\ cRetErr' = IF res.ErrorMessage = "" THEN "nil" ELSE "error"
    /\ cpc' = "done"
    /\ cAttempt' = 0

\* return result, nil
CrawlReturn(res) ==
    /\ cResult' = res
    /\ cRetErr' = "nil"
    /\ cpc' = "done"
    /\ cAttempt' = 0

\* workflow.ExecuteActivity(ctx, name, ...) followed by .Get: schedule and block.
CrawlSchedule(name, link, await) ==
    /\ cCmds' = Append(cCmds, <<name, link>>)
    /\ cpc' = await
    /\ cAttempt' = 1

\* Workflow start up to the first Get: schedules CrawlCareerPage for input.URL.
CrawlStart ==
    /\ cpc = "init"
    /\ CrawlSchedule("CrawlCareerPage", 0, "awaitPage")
    /\ UNCHANGED <<cNumLinks, cIdx, cOutcome, cJobs, cBatch, cResult, cRetErr>>
    /\ UNCHANGED nonCrawlVars

\* A page fetch whose non-success response is recorded but not returned on.
CrawlPageFetchedGoesOn ==
    /\ cpc = "awaitPage"
    /\ \/ /\ CrawlTaskError
          /\ CrawlReturn([cResult EXCEPT !.ErrorMessage = "failed to crawl page"])
          /\ UNCHANGED cCmds
       \/ /\ cResult' = [cResult EXCEPT !.ErrorMessage = "crawl unsuccessful"]
          /\ CrawlSchedule("ExtractJobLinks", 0, "awaitLinks")
          /\ UNCHANGED cRetErr
       \/ /\ CrawlSchedule("ExtractJobLinks", 0, "awaitLinks")
          /\ UNCHANGED <<cResult, cRetErr>>
    /\ UNCHANGED <<cNumLinks, cIdx, cOutcome, cJobs, cBatch>>
    /\ UNCHANGED nonCrawlVars

\* Step 1 result: err != nil, or !crawlResult.Success, or the page HTML.
CrawlPageFetched ==
    /\ cpc = "awaitPage"
    /\ \/ /\ CrawlTaskError
          /\ CrawlReturn([cResult EXCEPT !.ErrorMessage = "failed to crawl page"])
          /\ UNCHANGED cCmds
       \/ /\ CrawlReturn([cResult EXCEPT !.ErrorMessage = "crawl unsuccessful"])
          /\ UNCHANGED cCmds
       \/ /\ CrawlSchedule("ExtractJobLinks", 0, "awaitLinks")
          /\ UNCHANGED <<cResult, cRetErr>>
    /\ UNCHANGED <<cNumLinks, cIdx, cOutcome, cJobs, cBatch>>
    /\ UNCHANGED nonCrawlVars

\* The empty-jobs case treated as a failure: Success stays false.
CrawlNextLinkEmptyFails(jobs) ==
    /\ cJobs' = jobs
    /\ IF cIdx < cResult.JobsFound
       THEN /\ cIdx' = cIdx + 1
            /\ CrawlSchedule("CrawlCareerPage", cIdx + 1, "awaitJobPage")
            /\ UNCHANGED <<cBatch, cResult, cRetErr>>
       ELSE /\ UNCHANGED cIdx
            /\ IF Len(jobs) = 0
               THEN /\ CrawlReturn([cResult EXCEPT !.ErrorMessage = "no jobs parsed"])
                    /\ UNCHANGED <<cBatch, cCmds>>
               ELSE /\ cBatch' = jobs
                    /\ CrawlSchedule("StoreJobsInClickHouse", 0, "awaitStore")
                    /\ UNCHANGED <<cResult, cRetErr>>

\* End of the per-link loop body for link cIdx with the jobs slice now `jobs`:
\* the next link's fetch, or (after the loop) the empty-jobs return or the store call.
CrawlNextLink(jobs) ==
    /\ cJobs' = jobs
    /\ IF cIdx < cResult.JobsFound
       THEN /\ cIdx' = cIdx + 1
            /\ CrawlSchedule("CrawlCareerPage", cIdx + 1, "awaitJobPage")
            /\ UNCHANGED <<cBatch, cResult, cRetErr>>
       ELSE /\ UNCHANGED cIdx
            /\ IF Len(jobs) = 0
               THEN /\ CrawlReturn([cResult EXCEPT !.Success = TRUE])
                    /\ UNCHANGED <<cBatch, cCmds>>
               ELSE /\ cBatch' = jobs
                    /\ CrawlSchedule("StoreJobsInClickHouse", 0, "awaitStore")
                    /\ UNCHANGED <<cResult, cRetErr>>

\* Link extraction returning an empty list still goes on to the storage call.
CrawlLinksExtractedStoresEmpty ==
    /\ cpc = "awaitLinks"
    /\ \/ /\ CrawlTaskError
          /\ CrawlReturn([cResult EXCEPT !.ErrorMessage = "failed to extract job links"])
          /\ UNCHANGED <<cNumLinks, cIdx, cCmds>>
       \/ \E n \in 0..MaxLinks :
            /\ cNumLinks' = n
            /\ IF n = 0
               THEN /\ CrawlSchedule("StoreJobsInClickHouse", 0, "awaitStore")
                    /\ UNCHANGED <<cIdx, cResult, cRetErr>>
               ELSE /\ cResult' = [cResult EXCEPT !.JobsFound = Retained(n)]
                    /\ cIdx' = 1
                    /\ CrawlSchedule("CrawlCareerPage", 1, "awaitJobPage")
                    /\ UNCHANGED cRetErr
    /\ UNCHANGED <<cOutcome, cJobs, cBatch>>
    /\ UNCHANGED nonCrawlVars

\* Step 2 result: an error, or n job links; then the cap and the first job-page fetch.
CrawlLinksExtracted ==
    /\ cpc = "awaitLinks"
    /\ \/ /\ CrawlTaskError
          /\ CrawlReturn([cResult EXCEPT !.ErrorMessage = "failed to extract job links"])
          /\ UNCHANGED <<cNumLinks, cIdx, cCmds>>
       \/ \E n \in 0..MaxLinks :
            /\ cNumLinks' = n
            /\ IF n = 0
               THEN /\ CrawlReturn([cResult EXCEPT !.Success = TRUE])
                    /\ UNCHANGED <<cIdx, cCmds>>
               ELSE /\ cResult' = [cResult EXCEPT !.JobsFound = Retained(n)]
                    /\ cIdx' = 1
                    /\ CrawlSchedule("CrawlCareerPage", 1, "awaitJobPage")
                    /\ UNCHANGED cRetErr
    /\ UNCHANGED <<cOutcome, cJobs, cBatch>>
    /\ UNCHANGED nonCrawlVars

\* A job-page fetch whose non-success response is parsed all the same.
CrawlJobPageFetchedParsesAnyway ==
    /\ cpc = "awaitJobPage"
    /\ \/ /\ CrawlTaskError
          /\ cOutcome' = [cOutcome EXCEPT ![cIdx] = "fetch_error"]
          /\ CrawlNextLink(cJobs)
       \/ /\ cOutcome' = [cOutcome EXCEPT ![cIdx] = "fetch_unsuccessful"]
          /\ CrawlSchedule("ParseJobPage", cIdx, "awaitParse")
          /\ UNCHANGED <<cIdx, cJobs, cBatch, cResult, cRetErr>>
       \/ /\ CrawlSchedule("ParseJobPage", cIdx, "awaitParse")
          /\ UNCHANGED <<cOutcome, cIdx, cJobs, cBatch, cResult, cRetErr>>
    /\ UNCHANGED cNumLinks
    /\ UNCHANGED nonCrawlVars

\* Step 3, job detail page of link cIdx: err != nil || !Success -> continue.
CrawlJobPageFetched ==
    /\ cpc = "awaitJobPage"
    /\ \/ /\ CrawlTaskError
          /\ cOutcome' = [cOutcome EXCEPT ![cIdx] = "fetch_error"]
          /\ CrawlNextLink(cJobs)
       \/ /\ cOutcome' = [cOutcome EXCEPT ![cIdx] = "fetch_unsuccessful"]
          /\ CrawlNextLink(cJobs)
       \/ /\ CrawlSchedule("ParseJobPage", cIdx, "awaitParse")
          /\ UNCHANGED <<cOutcome, cIdx, cJobs, cBatch, cResult, cRetErr>>
    /\ UNCHANGED cNumLinks
    /\ UNCHANGED nonCrawlVars

\* A parse error that ends the crawl instead of moving to the next link.
CrawlJobParsedAbortsOnError ==
    /\ cpc = "awaitParse"
    /\ \/ /\ CrawlTaskError
          /\ cOutcome' = [cOutcome EXCEPT ![cIdx] = "parse_error"]
          /\ CrawlReturn([cResult EXCEPT !.ErrorMessage = "failed to parse job page"])
          /\ UNCHANGED <<cIdx, cJobs, cBatch, cCmds>>
       \/ /\ cOutcome' = [cOutcome EXCEPT ![cIdx] = "not_parseable"]
          /\ CrawlNextLink(cJobs)
       \/ \E job \in ParsedJobs :
            /\ cOutcome' = [cOutcome EXCEPT ![cIdx] = "parsed"]
            /\ CrawlNextLink(Append(cJobs, Normalize(job, cIdx)))
    /\ UNCHANGED cNumLinks
    /\ UNCHANGED nonCrawlVars

\* ParseJobPage result of link cIdx: error, nil map (no structured data), or a job.
CrawlJobParsed ==
    /\ cpc = "awaitParse"
    /\ \/ /\ CrawlTaskError
          /\ cOutcome' = [cOutcome EXCEPT ![cIdx] = "parse_error"]
          /\ CrawlNextLink(cJobs)
       \/ /\ cOutcome' = [cOutcome EXCEPT ![cIdx] = "not_parseable"]
          /\ CrawlNextLink(cJobs)
       \/ \E job \in ParsedJobs :
            /\ cOutcome' = [cOutcome EXCEPT ![cIdx] = "parsed"]
            /\ CrawlNextLink(Append(cJobs, Normalize(job, cIdx)))
    /\ UNCHANGED cNumLinks
    /\ UNCHANGED nonCrawlVars

\* StoreJobsInClickHouse upserts every job of the batch and returns how many.
StoreJobsInClickHouse(jobs) == Len(jobs)

\* A storage result that reports the number of retained links as stored.
CrawlStoredCountsFound ==
    /\ cpc = "awaitStore"
    /\ \/ /\ CrawlTaskError
          /\ CrawlReturn([cResult EXCEPT !.ErrorMessage = "failed to store jobs"])
       \/ CrawlReturn([cResult EXCEPT !.JobsStored = cResult.JobsFound,
                                      !.Success = TRUE])
    /\ UNCHANGED <<cNumLinks, cIdx, cOutcome, cJobs, cBatch, cCmds>>
    /\ UNCHANGED nonCrawlVars

\* Step 4 result: an error, or storedCount.
CrawlStored ==
    /\ cpc = "awaitStore"
    /\ \/ /\ CrawlTaskError
          /\ CrawlReturn([cResult EXCEPT !.ErrorMessage = "failed to store jobs"])
       \/ CrawlReturn([cResult EXCEPT !.JobsStored = StoreJobsInClickHouse(cBatch),
                                      !.Success = TRUE])
    /\ UNCHANGED <<cNumLinks, cIdx, cOutcome, cJobs, cBatch, cCmds>>
    /\ UNCHANGED nonCrawlVars

CrawlNext ==
    \/ CrawlStart
    \/ CrawlAttemptFails
    \/ CrawlPageFetched
    \/ CrawlLinksExtracted
    \/ CrawlJobPageFetched
    \/ CrawlJobParsed
    \/ CrawlStored

\* ----------------------------------------------- CompanyDiscoveryWorkflow

Domains == {"a.com", "b.com"}
URLs == {"u1", "u2"}
Platforms == {"greenhouse"}

\* input.Sources values of the model; "subdomains" is named in the DiscoveryInput
\* comment but matches no case of the switch.
SourceLists ==
    { <<>>, <<"manual">>, <<"github">>, <<"subdomains", "google_dork">>,
      <<"github", "google_dork", "manual", "github", "google_dork">> }

DiscInputs == [Query : {"a.com"}, Sources : SourceLists]

RECURSIVE SeqsUpTo(_, _)
\* Sequences over S of length at most n.
SeqsUpTo(S, n) ==
    IF n = 0 THEN {<<>>}
    ELSE LET shorter == SeqsUpTo(S, n - 1)
         IN  shorter \cup {Append(q, x) : q \in shorter, x \in S}

NoDup(q) == \A i, j \in 1..Len(q) : i # j => q[i] # q[j]

\* CompanyInfo as each discovery activity builds it.
Company(name, domain, source) == [Name |-> name, Domain |-> domain, Source |-> source]

\* What a discovery activity can return on success.
\*   DiscoverCompaniesFromGitHub: the OSINT service's companies, Source "github";
\*   DiscoverCompaniesFromGoogleDorks: one company per distinct domain, Name = Domain;
\*   AddCompanyManually: exactly the query as one company.
CompanyLists(task, query, n) ==
    CASE task = "DiscoverCompaniesFromGitHub" ->
           {[i \in 1..Len(q) |-> Company(<<"gh", q[i]>>, q[i], "github")] : q \in SeqsUpTo(Domains, n)}
      [] task = "DiscoverCompaniesFromGoogleDorks" ->
           {[i \in 1..Len(q) |-> Company(<<"dom", q[i]>>, q[i], "google_dork")] :
                q \in {r \in SeqsUpTo(Domains, n) : NoDup(r)}}
      [] OTHER -> {<<Company(<<"dom", query>>, query, "manual")>>}

\* CareerPageInfo as DiscoverCareerPages / EnumerateSubdomains build it.
PageLists(task, domain, n) ==
    IF task = "DiscoverCareerPages"
    THEN {[i \in 1..Len(q) |-> [URL |-> q[i], Domain |-> domain, PageType |-> "careers", Priority |-> 1]] :
              q \in SeqsUpTo(URLs, n)}
    ELSE {[i \in 1..Len(q) |-> [URL |-> q[i], Domain |-> domain, PageType |-> "subdomain", Priority |-> 2]] :
              q \in SeqsUpTo(URLs, n)}

ATSInfos == {[IsATS |-> FALSE, Platform |-> ""]} \cup
            {[IsATS |-> TRUE, Platform |-> pl] : pl \in Platforms \cup {""}}

Future(task, arg, zero) == [task |-> task, arg |-> arg, st |-> "pending", val |-> zero]

RECURSIVE Step1Futures(_, _)
\* Step 1 loop: one activity per recognised source, in input order.
Step1Futures(sources, query) ==
    IF sources = <<>> THEN <<>>
    ELSE LET rest == Step1Futures(Tail(sources), query)
             src == Head(sources)
         IN  CASE src = "github" -> <<Future("DiscoverCompaniesFromGitHub", query, <<>>)>> \o rest
               [] src = "google_dork" -> <<Future("DiscoverCompaniesFromGoogleDorks", query, <<>>)>> \o rest
               [] src = "manual" -> <<Future("AddCompanyManually", query, <<>>)>> \o rest
               [] OTHER -> rest

RECURSIVE Step2Futures(_)
\* Step 2 loop: DiscoverCareerPages and EnumerateSubdomains per company.
Step2Futures(companies) ==
    IF companies = <<>> THEN <<>>
    ELSE <<Future("DiscoverCareerPages", Head(companies).Domain, <<>>),
           Future("EnumerateSubdomains", Head(companies).Domain, <<>>)>>
         \o Step2Futures(Tail(companies))

\* Step 3 loop: DetectATS per career page.
Step3Futures(pages) ==
    [i \in 1..Len(pages) |-> Future("DetectATS", pages[i].URL, [IsATS |-> FALSE, Platform |-> ""])]

\* Step 4: the single QueueURLsForCrawling activity.
Step4Futures(pages) == <<Future("QueueURLsForCrawling", pages, 0)>>

NewDiscoveryResult ==
    [CompaniesFound |-> 0, CareerPagesFound |-> 0, TotalURLsQueued |-> 0,
     ATSPlatforms |-> [pl \in Platforms |-> 0]]

DiscInit ==
    /\ dpc = "init"
    /\ dInput \in DiscInputs
    /\ dFut = <<>>
    /\ dGet = 0
    /\ dAllCompanies = <<>>
    /\ dAllPages = <<>>
    /\ dResult = NewDiscoveryResult
    /\ dCrawlSuccesses = 0
    /\ dRetErr = "unset"
    /\ dCancelled = FALSE
    /\ dQueueErrLogged = FALSE

\* On a cancelled context every activity or child not yet finished is settled
\* with a CanceledError: the options leave WaitForCancellation at its default
\* (false), so the Get does not wait for what the task or child does next.
Canceled(futs) ==
    [i \in 1..Len(futs) |->
        IF futs[i].st = "pending" THEN [futs[i] EXCEPT !.st = "canceled"] ELSE futs[i]]

\* Block on the first future of a freshly launched step.
DiscSched(pc, futs) ==
    /\ dpc' = pc
    /\ dFut' = IF dCancelled THEN Canceled(futs) ELSE futs
    /\ dGet' = 1

\* Completed futures of q whose activity succeeded, values concatenated in launch order.
RECURSIVE ConcatOk(_)
ConcatOk(q) ==
    IF q = <<>> THEN <<>>
    ELSE (IF Head(q).st = "ok" THEN Head(q).val ELSE <<>>) \o ConcatOk(Tail(q))

\* Sum of the lengths of the lists already returned by the futures of q.
RECURSIVE Returned(_)
Returned(q) ==
    IF q = <<>> THEN 0
    ELSE (IF Head(q).st = "ok" THEN Len(Head(q).val) ELSE 0) + Returned(Tail(q))

\* Child workflow IDs are "career-crawl-" + workflow.Now(ctx) + "-" + page.Domain;
\* all children are started in one workflow task, so Now is the same for all.
ChildWorkflowID(page) == <<"career-crawl", page.Domain>>

\* Pages of one domain, in allCareerPages order (pagesByCompany[domain]).
PagesOf(pages, domain) == SelectSeq(pages, LAMBDA pg : pg.Domain = domain)

\* companyName: the Name of the first company with that domain, else the domain.
CompanyName(companies, domain) ==
    LET hits == SelectSeq(companies, LAMBDA c : c.Domain = domain)
    IN  IF hits = <<>> THEN <<"dom", domain>> ELSE Head(hits).Name

RECURSIVE CrawlChildren(_, _, _, _)
\* Step 5 loops: for each domain in `order` (the map's iteration order), one child
\* per page; a child whose workflow ID is already taken by a sibling is rejected
\* by the engine and its future fails at once.
CrawlChildren(order, pages, companies, taken) ==
    IF order = <<>> THEN <<>>
    ELSE LET dom == Head(order)
             grp == PagesOf(pages, dom)
             kids == [i \in 1..Len(grp) |->
                        [task |-> "CareerPageCrawlWorkflow",
                         arg |-> [URL |-> grp[i].URL, CompanyName |-> CompanyName(companies, dom)],
                         id |-> ChildWorkflowID(grp[i]),
                         st |-> IF ChildWorkflowID(grp[i]) \in taken \/ i > 1
                                THEN "err" ELSE "pending",
                         val |-> FALSE]]
         IN  kids \o CrawlChildren(Tail(order), pages, companies,
                                   taken \cup {ChildWorkflowID(grp[i]) : i \in 1..Len(grp)})

\* Iteration orders of a Go map whose keys are the domains of `pages`.
MapOrders(pages) ==
    LET keys == {pages[i].Domain : i \in 1..Len(pages)}
    IN  {q \in SeqsUpTo(keys, Cardinality(keys)) : NoDup(q) /\ Len(q) = Cardinality(keys)}

\* return result, nil
DiscReturn ==
    /\ dpc' = "done"
    /\ dFut' = <<>>
    /\ dGet' = 0
    /\ dRetErr' = "nil"

\* From the end of step 3 (or of step 2 with no page): launch QueueURLsForCrawling.
DiscEnterStep4(pages) == DiscSched("step4", Step4Futures(pages))

\* From the end of step 1: CompaniesFound, then the step-2 fan-out; with no company
\* steps 2 and 3 launch nothing and the workflow runs on to step 4.
DiscAfterStep1(companies) ==
    /\ dAllCompanies' = companies
    /\ dResult' = [dResult EXCEPT !.CompaniesFound = Len(companies)]
    /\ IF companies # <<>>
       THEN DiscSched("step2", Step2Futures(companies))
       ELSE DiscEnterStep4(<<>>)
    /\ UNCHANGED <<dAllPages, dCrawlSuccesses, dRetErr>>

\* Workflow start: the step-1 fan-out, up to the first Get.
DiscStart ==
    /\ dpc = "init"
    /\ LET futs == Step1Futures(dInput.Sources, dInput.Query)
       IN  IF futs # <<>>
           THEN /\ DiscSched("step1", futs)
                /\ UNCHANGED <<dAllCompanies, dAllPages, dResult, dCrawlSuccesses, dRetErr>>
           ELSE DiscAfterStep1(<<>>)
    /\ UNCHANGED dInput
    /\ UNCHANGED <<dCancelled, dQueueErrLogged, nonDiscVars>>

\* What the activity or child of future f can return on success.
Outcomes(f) ==
    CASE dpc = "step1" ->
           {v \in CompanyLists(f.task, f.arg, MaxPerTask) :
                Returned(dFut) + Len(v) <= MaxCompanies}
      [] dpc = "step2" ->
           {v \in PageLists(f.task, f.arg, MaxPerTask) : Returned(dFut) + Len(v) <= MaxPages}
      [] dpc = "step3" -> ATSInfos
      [] dpc = "step4" -> 0..Len(f.arg)
      [] OTHER -> BOOLEAN

\* An activity or child workflow finishes: with a value, or with an error (for an
\* activity: after the retry policy's last attempt).
DiscTaskCompletes ==
    /\ dpc \in {"step1", "step2", "step3", "step4", "step5"}
    /\ \E i \in 1..Len(dFut) :
         /\ dFut[i].st = "pending"
         /\ \/ dFut' = [dFut EXCEPT ![i].st = "err"]
            \/ \E v \in Outcomes(dFut[i]) : dFut' = [dFut EXCEPT ![i].st = "ok", ![i].val = v]
    /\ UNCHANGED <<dpc, dInput, dGet, dAllCompanies, dAllPages, dResult, dCrawlSuccesses, dRetErr>>
    /\ UNCHANGED <<dCancelled, dQueueErrLogged, nonDiscVars>>

\* The run is cancelled (explicit stop) while it waits in one of its steps.
DiscCancel ==
    /\ dpc \in {"step1", "step2", "step3", "step4", "step5"}
    /\ ~dCancelled
    /\ dCancelled' = TRUE
    /\ dFut' = Canceled(dFut)
    /\ UNCHANGED <<dpc, dInput, dGet, dAllCompanies, dAllPages, dResult, dCrawlSuccesses, dRetErr, dQueueErrLogged>>
    /\ UNCHANGED nonDiscVars

\* The loop over a step's futures: the current Get has returned; either block on the
\* next future or leave the loop.
DiscLastGet == dGet = Len(dFut)

\* A source's error propagated: return nil, err.
DiscCollectCompaniesAbort ==
    /\ dpc = "step1"
    /\ dFut[dGet].st # "pending"
    /\ LET f == dFut[dGet]
           companies == IF f.st = "ok" THEN dAllCompanies \o f.val ELSE dAllCompanies
       IN  IF f.st = "err"
           THEN /\ dpc' = "done"
                /\ dRetErr' = "error"
                /\ UNCHANGED <<dFut, dGet, dAllCompanies, dAllPages, dResult, dCrawlSuccesses>>
           ELSE IF DiscLastGet
           THEN DiscAfterStep1(companies)
           ELSE /\ dAllCompanies' = companies
                /\ dGet' = dGet + 1
                /\ UNCHANGED <<dpc, dFut, dAllPages, dResult, dCrawlSuccesses, dRetErr>>
    /\ UNCHANGED dInput
    /\ UNCHANGED <<dCancelled, dQueueErrLogged, nonDiscVars>>

\* Step 1 collection: an error is logged and skipped, a list is appended.
DiscCollectCompanies ==
    /\ dpc = "step1"
    /\ dFut[dGet].st # "pending"
    /\ LET f == dFut[dGet]
           companies == IF f.st = "ok" THEN dAllCompanies \o f.val ELSE dAllCompanies
       IN  IF DiscLastGet
           THEN DiscAfterStep1(companies)
           ELSE /\ dAllCompanies' = companies
                /\ dGet' = dGet + 1
                /\ UNCHANGED <<dpc, dFut, dAllPages, dResult, dCrawlSuccesses, dRetErr>>
    /\ UNCHANGED dInput
    /\ UNCHANGED <<dCancelled, dQueueErrLogged, nonDiscVars>>

\* A step-2 collection that moves on with the first result it gets.
DiscCollectPagesFirstOnly ==
    /\ dpc = "step2"
    /\ dFut[dGet].st # "pending"
    /\ LET f == dFut[dGet]
           pages == IF f.st = "ok" THEN dAllPages \o f.val ELSE dAllPages
       IN  /\ dAllPages' = pages
           /\ dResult' = [dResult EXCEPT !.CareerPagesFound = Len(pages)]
           /\ IF pages # <<>>
              THEN DiscSched("step3", Step3Futures(pages))
              ELSE DiscEnterStep4(pages)
    /\ UNCHANGED <<dInput, dAllCompanies, dCrawlSuccesses, dRetErr>>
    /\ UNCHANGED <<dCancelled, dQueueErrLogged, nonDiscVars>>

\* Step 2 collection; then CareerPagesFound and the DetectATS fan-out.
DiscCollectPages ==
    /\ dpc = "step2"
    /\ dFut[dGet].st # "pending"
    /\ LET f == dFut[dGet]
           pages == IF f.st = "ok" THEN dAllPages \o f.val ELSE dAllPages
       IN  /\ dAllPages' = pages
           /\ IF DiscLastGet
              THEN /\ dResult' = [dResult EXCEPT !.CareerPagesFound = Len(pages)]
                   /\ IF pages # <<>>
                      THEN DiscSched("step3", Step3Futures(pages))
                      ELSE DiscEnterStep4(pages)
              ELSE /\ dGet' = dGet + 1
                   /\ UNCHANGED <<dpc, dFut, dResult>>
    /\ UNCHANGED <<dInput, dAllCompanies, dCrawlSuccesses, dRetErr>>
    /\ UNCHANGED <<dCancelled, dQueueErrLogged, nonDiscVars>>

\* Step 3 collection: the platform histogram; then QueueURLsForCrawling.
DiscCollectATS ==
    /\ dpc = "step3"
    /\ dFut[dGet].st # "pending"
    /\ LET f == dFut[dGet]
       IN  /\ dResult' = IF f.st = "ok" /\ f.val.IsATS /\ f.val.Platform # ""
                         THEN [dResult EXCEPT !.ATSPlatforms[f.val.Platform] = @ + 1]
                         ELSE dResult
           /\ IF DiscLastGet
              THEN DiscEnterStep4(dAllPages)
              ELSE /\ dGet' = dGet + 1
                   /\ UNCHANGED <<dpc, dFut>>
    /\ UNCHANGED <<dInput, dAllCompanies, dAllPages, dCrawlSuccesses, dRetErr>>
    /\ UNCHANGED <<dCancelled, dQueueErrLogged, nonDiscVars>>

\* A step 4 whose error is returned: return nil, err.
DiscQueuedAbort ==
    /\ dpc = "step4"
    /\ dFut[1].st # "pending"
    /\ dQueueErrLogged' = (dFut[1].st # "ok")
    /\ dResult' = [dResult EXCEPT !.TotalURLsQueued = IF dFut[1].st = "ok" THEN dFut[1].val ELSE 0]
    /\ IF dFut[1].st # "ok"
       THEN dpc' = "done" /\ dFut' = <<>> /\ dGet' = 0 /\ dRetErr' = "error"
       ELSE IF dAllPages = <<>>
       THEN DiscReturn
       ELSE /\ \E order \in MapOrders(dAllPages) :
                 DiscSched("step5", CrawlChildren(order, dAllPages, dAllCompanies, {}))
            /\ UNCHANGED dRetErr
    /\ UNCHANGED <<dInput, dAllCompanies, dAllPages, dCrawlSuccesses>>
    /\ UNCHANGED <<dCancelled, nonDiscVars>>

\* Step 4 result (an error leaves queued = 0), then the step-5 spawn of one child
\* crawl per page, grouped by domain in map-iteration order.
DiscQueued ==
    /\ dpc = "step4"
    /\ dFut[1].st # "pending"
    /\ dQueueErrLogged' = (dFut[1].st # "ok")
    /\ dResult' = [dResult EXCEPT !.TotalURLsQueued = IF dFut[1].st = "ok" THEN dFut[1].val ELSE 0]
    /\ IF dAllPages = <<>>
       THEN DiscReturn
       ELSE /\ \E order \in MapOrders(dAllPages) :
                 DiscSched("step5", CrawlChildren(order, dAllPages, dAllCompanies, {}))
            /\ UNCHANGED dRetErr
    /\ UNCHANGED <<dInput, dAllCompanies, dAllPages, dCrawlSuccesses>>
    /\ UNCHANGED <<dCancelled, nonDiscVars>>

\* Step 5 collection: count the children that returned Success; then return.
DiscCollectCrawls ==
    /\ dpc = "step5"
    /\ dFut[dGet].st # "pending"
    /\ LET f == dFut[dGet]
       IN  dCrawlSuccesses' = IF f.st = "ok" /\ f.val THEN dCrawlSuccesses + 1 ELSE dCrawlSuccesses
    /\ IF DiscLastGet
       THEN DiscReturn
       ELSE /\ dGet' = dGet + 1
            /\ UNCHANGED <<dpc, dFut, dRetErr>>
    /\ UNCHANGED <<dInput, dAllCompanies, dAllPages, dResult>>
    /\ UNCHANGED <<dCancelled, dQueueErrLogged, nonDiscVars>>

DiscNext ==
    \/ DiscStart
    \/ DiscTaskCompletes
    \/ DiscCancel
    \/ DiscCollectCompanies
    \/ DiscCollectPages
    \/ DiscCollectATS
    \/ DiscQueued
    \/ DiscCollectCrawls

\* ------------------------------------- the worker on "job-crawl-queue"

\* w.RegisterWorkflow(...) calls of the worker.
RegisteredWorkflows ==
    {"CrawlCoordinatorWorkflow", "ScheduledCrawlWorkflow", "CompanyDiscoveryWorkflow",
     "ContinuousDiscoveryWorkflow", "GoogleDorkDiscoveryWorkflow"}

\* w.RegisterActivity(...) calls of the worker.
RegisteredActivities ==
    {"DiscoverJobURLs", "CrawlJobBatch", "ParseJobActivity", "ScoreJobActivity",
     "ExtractHiringManagerActivity",
     "DiscoverCompaniesFromGitHub", "DiscoverCompaniesFromGoogleDorks", "AddCompanyManually",
     "DiscoverCareerPages", "EnumerateSubdomains", "DetectATS", "QueueURLsForCrawling",
     "GenerateDorkQueries", "ExecuteDorkQuery", "DetectATSAndExtractDomain"}

\* Whether the worker can run a task of this type.  The workflow task of an
\* unregistered workflow type fails and is retried without end: the child stays
\* running and never closes.
Registered(task) == task \in RegisteredWorkflows \cup RegisteredActivities

\* The worker runs a pending activity or child of the run to its end: with a
\* value, or with an error (for an activity: after the last attempt).
DiscWorkerCompletes ==
    /\ dpc \in {"step1", "step2", "step3", "step4", "step5"}
    /\ \E i \in 1..Len(dFut) :
         /\ dFut[i].st = "pending"
         /\ Registered(dFut[i].task)
         /\ \/ dFut' = [dFut EXCEPT ![i].st = "err"]
            \/ \E v \in Outcomes(dFut[i]) : dFut' = [dFut EXCEPT ![i].st = "ok", ![i].val = v]
    /\ UNCHANGED <<dpc, dInput, dGet, dAllCompanies, dAllPages, dResult, dCrawlSuccesses, dRetErr>>
    /\ UNCHANGED <<dCancelled, dQueueErrLogged, nonDiscVars>>

\* Company Discovery as executed by this worker.
DiscWorkerNext ==
    \/ DiscStart
    \/ DiscWorkerCompletes
    \/ DiscCancel
    \/ DiscCollectCompanies
    \/ DiscCollectPages
    \/ DiscCollectATS
    \/ DiscQueued
    \/ DiscCollectCrawls

\* The workflow not running (its variables parked).
CrawlOff ==
    /\ cpc = "off" /\ cAttempt = 0 /\ cNumLinks = 0 /\ cIdx = 0
    /\ cOutcome = <<>> /\ cJobs = <<>> /\ cBatch = <<>>
    /\ cResult = NewCrawlResult /\ cRetErr = "unset" /\ cCmds = <<>>

DiscOff ==
    /\ dpc = "off" /\ dInput = [Query |-> "", Sources |-> <<>>] /\ dFut = <<>> /\ dGet = 0
    /\ dAllCompanies = <<>> /\ dAllPages = <<>> /\ dResult = NewDiscoveryResult
    /\ dCrawlSuccesses = 0 /\ dRetErr = "unset" /\ dCancelled = FALSE
    /\ dQueueErrLogged = FALSE

\* ------------------------------------------- ContinuousDiscoveryWorkflow

ContInputs ==
    [StaleThresholdDays : 1..MaxThreshold, RunGitHubDiscovery : BOOLEAN,
     RunDorkDiscovery : BOOLEAN, GitHubQuery : {"tech startup"},
     DorkQuery : {"we are hiring software engineer"}, MaxNewCompanies : {50}]

NoUpdates == [d \in Domains |-> "none"]

ContInit ==
    /\ now = 0
    /\ lastCrawled = [d \in Domains |-> 0]
    /\ kpc = "idle"
    /\ kRuns = 0
    /\ kInput \in ContInputs
    /\ kAttempt = 0
    /\ kListed = FALSE
    /\ kStale = <<>>
    /\ kFut = <<>>
    /\ kGet = 0
    /\ kUpd = NoUpdates
    /\ kTotals = [Companies |-> 0, URLs |-> 0]
    /\ kRetErr = "unset"

\* Time passes.
Tick ==
    /\ now < MaxTime
    /\ now' = now + 1
    /\ UNCHANGED <<lastCrawled, kpc, kRuns, kInput, kAttempt, kListed, kStale, kFut, kGet, kUpd, kTotals, kRetErr>>
    /\ UNCHANGED nonContVars

\* GetStaleCompanies(days): the companies whose last-crawled timestamp is older
\* than the threshold.
GetStaleCompanies(days) == {d \in Domains : now - lastCrawled[d] > days}

\* Orders in which the query can return a set of rows.
RowOrders(S) == {q \in SeqsUpTo(S, Cardinality(S)) : NoDup(q) /\ Len(q) = Cardinality(S)}

\* The recurring trigger starts a run: the workflow schedules GetStaleCompanies.
\* Update activities of the previous run that never ran are gone with that run.
ContStart ==
    /\ kpc \in {"idle", "done"}
    /\ kRuns < MaxRuns
    /\ kRuns' = kRuns + 1
    /\ kInput' \in ContInputs
    /\ kpc' = "awaitStale"
    /\ kAttempt' = 1
    /\ kListed' = FALSE
    /\ kStale' = <<>>
    /\ kFut' = <<>>
    /\ kGet' = 0
    /\ kUpd' = NoUpdates
    /\ kTotals' = [Companies |-> 0, URLs |-> 0]
    /\ kRetErr' = "unset"
    /\ UNCHANGED <<now, lastCrawled>>
    /\ UNCHANGED nonContVars

ChildFuture(id, input) == [id |-> id, input |-> input, st |-> "pending", val |-> [CompaniesFound |-> 0, TotalURLsQueued |-> 0]]

\* A spawn loop that starts at the second stale company.
StaleChildrenSkipFirst(stale) ==
    [i \in 1..(IF Len(stale) = 0 THEN 0 ELSE Len(stale) - 1) |->
        ChildFuture(<<"stale-company", stale[i + 1], now>>,
                    [Query |-> stale[i + 1], Sources |-> <<"manual">>, MaxResults |-> 10])]

\* Step 2 loop: one CompanyDiscoveryWorkflow child per stale company.
StaleChildren(stale) ==
    [i \in 1..Len(stale) |->
        ChildFuture(<<"stale-company", stale[i], now>>,
                    [Query |-> stale[i], Sources |-> <<"manual">>, MaxResults |-> 10])]

\* Step 3 with the dork strategy spawned whatever its flag says.
StrategyChildrenDorkAlways(input) ==
    (IF input.RunGitHubDiscovery
     THEN <<ChildFuture(<<"github-discovery", "", now>>,
                        [Query |-> input.GitHubQuery, Sources |-> <<"github">>,
                         MaxResults |-> input.MaxNewCompanies])>>
     ELSE <<>>)
    \o
    <<ChildFuture(<<"dork-discovery", "", now>>,
                  [Query |-> input.DorkQuery, Sources |-> <<"google_dork">>,
                   MaxResults |-> input.MaxNewCompanies])>>

\* Step 3: one child per enabled strategy.
StrategyChildren(input) ==
    (IF input.RunGitHubDiscovery
     THEN <<ChildFuture(<<"github-discovery", "", now>>,
                        [Query |-> input.GitHubQuery, Sources |-> <<"github">>,
                         MaxResults |-> input.MaxNewCompanies])>>
     ELSE <<>>)
    \o
    (IF input.RunDorkDiscovery
     THEN <<ChildFuture(<<"dork-discovery", "", now>>,
                        [Query |-> input.DorkQuery, Sources |-> <<"google_dork">>,
                         MaxResults |-> input.MaxNewCompanies])>>
     ELSE <<>>)

\* return nil / return err
ContReturn(err) ==
    /\ kpc' = "done"
    /\ kRetErr' = err

\* The spawn loops of steps 2 and 3 for a stale list, up to the first child Get
\* (or the return, when nothing was spawned).
ContSpawn(stale) ==
    /\ kStale' = stale
    /\ kFut' = StaleChildren(stale) \o StrategyChildren(kInput)
    /\ kUpd' = [d \in Domains |-> IF \E i \in 1..Len(stale) : stale[i] = d THEN "pending" ELSE "none"]
    /\ IF StaleChildren(stale) \o StrategyChildren(kInput) = <<>>
       THEN ContReturn("nil") /\ kGet' = 0
       ELSE kpc' = "awaitChildren" /\ kGet' = 1 /\ UNCHANGED kRetErr

\* RetryPolicy{MaximumAttempts: 3}: a failed attempt of GetStaleCompanies is
\* retried by the engine until the third one.
ContStaleAttemptFails ==
    /\ kpc = "awaitStale"
    /\ kAttempt < MaximumAttempts
    /\ kAttempt' = kAttempt + 1
    /\ UNCHANGED <<now, lastCrawled, kpc, kRuns, kInput, kListed, kStale, kFut, kGet, kUpd, kTotals, kRetErr>>
    /\ UNCHANGED nonContVars

\* A step-1 result whose error reaches the workflow after any failed attempt.
ContStaleListedNoRetry ==
    /\ kpc = "awaitStale"
    /\ \/ /\ ContReturn("error")
          /\ UNCHANGED <<kListed, kStale, kFut, kGet, kUpd>>
       \/ /\ kListed' = TRUE
          /\ \E stale \in RowOrders(GetStaleCompanies(kInput.StaleThresholdDays)) : ContSpawn(stale)
    /\ UNCHANGED <<now, lastCrawled, kRuns, kInput, kAttempt, kTotals>>
    /\ UNCHANGED nonContVars

\* A step-1 error taken for an empty stale list: the strategies are still spawned.
ContStaleListedErrorAsEmpty ==
    /\ kpc = "awaitStale"
    /\ \/ /\ kAttempt = MaximumAttempts
          /\ UNCHANGED kListed
          /\ ContSpawn(<<>>)
       \/ /\ kListed' = TRUE
          /\ \E stale \in RowOrders(GetStaleCompanies(kInput.StaleThresholdDays)) : ContSpawn(stale)
    /\ UNCHANGED <<now, lastCrawled, kRuns, kInput, kAttempt, kTotals>>
    /\ UNCHANGED nonContVars

\* Step 1 result: the error (of the last attempt) is returned, or the list
\* drives steps 2 and 3.
ContStaleListed ==
    /\ kpc = "awaitStale"
    /\ \/ /\ kAttempt = MaximumAttempts
          /\ ContReturn("error")
          /\ UNCHANGED <<kListed, kStale, kFut, kGet, kUpd>>
       \/ /\ kListed' = TRUE
          /\ \E stale \in RowOrders(GetStaleCompanies(kInput.StaleThresholdDays)) : ContSpawn(stale)
    /\ UNCHANGED <<now, lastCrawled, kRuns, kInput, kAttempt, kTotals>>
    /\ UNCHANGED nonContVars

\* UpdateCompanyLastCrawled(domain) runs: last_crawled_at := now, or it fails for good.
\* Nothing awaits it, so it can also run after the workflow has returned.
ContUpdateRuns ==
    /\ \E d \in Domains :
         /\ kUpd[d] = "pending"
         /\ \/ /\ lastCrawled' = [lastCrawled EXCEPT ![d] = now]
               /\ kUpd' = [kUpd EXCEPT ![d] = "ok"]
            \/ /\ kUpd' = [kUpd EXCEPT ![d] = "err"]
               /\ UNCHANGED lastCrawled
    /\ UNCHANGED <<now, kpc, kRuns, kInput, kAttempt, kListed, kStale, kFut, kGet, kTotals, kRetErr>>
    /\ UNCHANGED nonContVars

\* A CompanyDiscoveryWorkflow child finishes with a result or fails.
ContChildCompletes ==
    /\ kpc = "awaitChildren"
    /\ \E i \in 1..Len(kFut) :
         /\ kFut[i].st = "pending"
         /\ \/ kFut' = [kFut EXCEPT ![i].st = "err"]
            \/ \E c \in 0..1 :
                 kFut' = [kFut EXCEPT ![i].st = "ok",
                                      ![i].val = [CompaniesFound |-> c, TotalURLsQueued |-> 2 * c]]
    /\ UNCHANGED <<now, lastCrawled, kpc, kRuns, kInput, kAttempt, kListed, kStale, kGet, kUpd, kTotals, kRetErr>>
    /\ UNCHANGED nonContVars

\* A final loop that gets a stale company's child only once that company's
\* timestamp update has finished.
ContCollectWaitsForUpdate ==
    /\ kpc = "awaitChildren"
    /\ kFut[kGet].st # "pending"
    /\ kFut[kGet].id[1] = "stale-company" => kUpd[kFut[kGet].id[2]] # "pending"
    /\ LET f == kFut[kGet]
       IN  kTotals' = IF f.st = "ok"
                      THEN [Companies |-> kTotals.Companies + f.val.CompaniesFound,
                            URLs |-> kTotals.URLs + f.val.TotalURLsQueued]
                      ELSE kTotals
    /\ IF kGet = Len(kFut)
       THEN ContReturn("nil") /\ UNCHANGED kGet
       ELSE kGet' = kGet + 1 /\ UNCHANGED <<kpc, kRetErr>>
    /\ UNCHANGED <<now, lastCrawled, kRuns, kInput, kAttempt, kListed, kStale, kFut, kUpd>>
    /\ UNCHANGED nonContVars

\* A final loop that returns the first child error instead of skipping it.
ContCollectAbort ==
    /\ kpc = "awaitChildren"
    /\ kFut[kGet].st # "pending"
    /\ LET f == kFut[kGet]
       IN  kTotals' = IF f.st = "ok"
                      THEN [Companies |-> kTotals.Companies + f.val.CompaniesFound,
                            URLs |-> kTotals.URLs + f.val.TotalURLsQueued]
                      ELSE kTotals
    /\ IF kFut[kGet].st = "err"
       THEN ContReturn("error") /\ UNCHANGED kGet
       ELSE IF kGet = Len(kFut)
            THEN ContReturn("nil") /\ UNCHANGED kGet
            ELSE kGet' = kGet + 1 /\ UNCHANGED <<kpc, kRetErr>>
    /\ UNCHANGED <<now, lastCrawled, kRuns, kInput, kAttempt, kListed, kStale, kFut, kUpd>>
    /\ UNCHANGED nonContVars

\* The final loop: a failed child is logged and skipped, a result is added up;
\* after the last future the workflow returns nil.
ContCollect ==
    /\ kpc = "awaitChildren"
    /\ kFut[kGet].st # "pending"
    /\ LET f == kFut[kGet]
       IN  kTotals' = IF f.st = "ok"
                      THEN [Companies |-> kTotals.Companies + f.val.CompaniesFound,
                            URLs |-> kTotals.URLs + f.val.TotalURLsQueued]
                      ELSE kTotals
    /\ IF kGet = Len(kFut)
       THEN ContReturn("nil") /\ UNCHANGED kGet
       ELSE kGet' = kGet + 1 /\ UNCHANGED <<kpc, kRetErr>>
    /\ UNCHANGED <<now, lastCrawled, kRuns, kInput, kAttempt, kListed, kStale, kFut, kUpd>>
    /\ UNCHANGED nonContVars

ContNext ==
    \/ Tick
    \/ ContStart
    \/ ContStaleAttemptFails
    \/ ContStaleListed
    \/ ContUpdateRuns
    \/ ContChildCompletes
    \/ ContCollect

ContOff ==
    /\ now = 0 /\ lastCrawled = [d \in Domains |-> 0] /\ kpc = "off" /\ kRuns = 0
    /\ kInput = [StaleThresholdDays |-> 0] /\ kAttempt = 0 /\ kListed = FALSE /\ kStale = <<>> /\ kFut = <<>>
    /\ kGet = 0 /\ kUpd = NoUpdates /\ kTotals = [Companies |-> 0, URLs |-> 0] /\ kRetErr = "unset"

\* ------------------------------------------------- QueueURLsForCrawling

\* hex(sha256(url)): distinct URLs have distinct hashes.
Sha256Hex(url) == IF url = "u1" THEN "5e3a" ELSE IF url = "u2" THEN "c07f" ELSE "0000"

\* The domain a candidate URL was discovered for.
DomainOf(url) == IF url = "u1" THEN "a.com" ELSE "b.com"

\* Candidate pages as DiscoverCareerPages and EnumerateSubdomains build them.
\* Confidence is in tenths.
QueuePages ==
    {[URL |-> u, Domain |-> DomainOf(u), PageType |-> "careers", Confidence |-> c,
      ATSPlatform |-> "", Priority |-> p] : u \in URLs, c \in {5, 9}, p \in {1, 2}}

\* SELECT id FROM companies WHERE domain = $1 LIMIT 1; "NULL" when there is no row.
CompanyIdOf(domain) == IF domain = "a.com" THEN "1" ELSE "NULL"

QueueInit ==
    /\ qConnected \in BOOLEAN
    /\ qpc = "idle"
    /\ qPages = <<>>
    /\ qIdx = 0
    /\ queued = 0
    /\ qRet = 0
    /\ qCalls = 0
    /\ qRows = <<>>
    /\ qNextId = 1
    /\ qLog = {}
    /\ qUpserts = 0

\* The activity is invoked; without a connection it returns len(pages) at once.
QueueCall ==
    /\ qpc \in {"idle", "returned"}
    /\ qCalls < MaxCalls
    /\ qCalls' = qCalls + 1
    /\ \E pages \in SeqsUpTo(QueuePages, MaxQueuePages) :
         /\ qPages' = pages
         /\ IF ~qConnected
            THEN qpc' = "returned" /\ qRet' = Len(pages) /\ qIdx' = 0 /\ queued' = 0
            ELSE qpc' = "loop" /\ qIdx' = 1 /\ queued' = 0 /\ qRet' = 0
    /\ qUpserts' = 0
    /\ UNCHANGED <<qConnected, qRows, qNextId, qLog>>
    /\ UNCHANGED nonQueueVars

\* An ON CONFLICT clause that overwrites with the new values.
UpsertOverwrite(rows, row) ==
    IF \E i \in 1..Len(rows) : rows[i].url_hash = row.url_hash
    THEN [i \in 1..Len(rows) |->
            IF rows[i].url_hash = row.url_hash
            THEN [rows[i] EXCEPT !.confidence = row.confidence,
                                 !.priority = row.priority]
            ELSE rows[i]]
    ELSE Append(rows, row)

\* An ON CONFLICT clause that replaces the stored row by the proposed one.
UpsertReplacesRow(rows, row) ==
    IF \E i \in 1..Len(rows) : rows[i].url_hash = row.url_hash
    THEN [i \in 1..Len(rows) |->
            IF rows[i].url_hash = row.url_hash THEN [row EXCEPT !.id = rows[i].id] ELSE rows[i]]
    ELSE Append(rows, row)

\* INSERT ... ON CONFLICT (url_hash) DO UPDATE SET confidence = GREATEST(...),
\* priority = GREATEST(...)
Upsert(rows, row) ==
    IF \E i \in 1..Len(rows) : rows[i].url_hash = row.url_hash
    THEN [i \in 1..Len(rows) |->
            IF rows[i].url_hash = row.url_hash
            THEN [rows[i] EXCEPT !.confidence = Max(rows[i].confidence, row.confidence),
                                 !.priority = Max(rows[i].priority, row.priority)]
            ELSE rows[i]]
    ELSE Append(rows, row)

\* The row the INSERT proposes for a page.
NewRow(page, companyID, id) ==
    [id |-> id, company_id |-> companyID, url |-> page.URL, url_hash |-> Sha256Hex(page.URL),
     page_type |-> page.PageType, confidence |-> page.Confidence,
     ats_platform |-> page.ATSPlatform, discovered_via |-> "osint",
     priority |-> page.Priority, crawl_status |-> "pending"]

\* One iteration of the range loop: the company lookup fails (continue), the
\* INSERT fails (continue), or the upsert is executed and queued is incremented.
QueuePage ==
    /\ qpc = "loop"
    /\ qIdx <= Len(qPages)
    /\ LET page == qPages[qIdx]
       IN  \/ UNCHANGED <<qRows, qNextId, qLog, queued, qUpserts>>
           \/ /\ qNextId' = qNextId + 1
              /\ UNCHANGED <<qRows, qLog, queued, qUpserts>>
           \/ /\ qRows' = Upsert(qRows, NewRow(page, CompanyIdOf(page.Domain), qNextId))
              /\ qNextId' = qNextId + 1
              /\ qLog' = qLog \cup {<<page.URL, page.Confidence, page.Priority>>}
              /\ queued' = queued + 1
              /\ qUpserts' = qUpserts + 1
    /\ qIdx' = qIdx + 1
    /\ UNCHANGED <<qConnected, qpc, qPages, qRet, qCalls>>
    /\ UNCHANGED nonQueueVars

\* return queued, nil
QueueReturn ==
    /\ qpc = "loop"
    /\ qIdx > Len(qPages)
    /\ qpc' = "returned"
    /\ qRet' = queued
    /\ UNCHANGED <<qConnected, qPages, qIdx, queued, qCalls, qRows, qNextId, qLog, qUpserts>>
    /\ UNCHANGED nonQueueVars

QueueNext ==
    \/ QueueCall
    \/ QueuePage
    \/ QueueReturn

QueueOff ==
    /\ qConnected = FALSE /\ qpc = "off" /\ qPages = <<>> /\ qIdx = 0 /\ queued = 0
    /\ qRet = 0 /\ qCalls = 0 /\ qRows = <<>> /\ qNextId = 1 /\ qLog = {}
    /\ qUpserts = 0

\* ---------------------------------------- jobs table (ReplacingMergeTree)

JobHashes == {"h1", "h2"}

\* job_hash is a hash of (url + title + company): the company follows the hash.
CompanyOfHash(h) == IF h = "h1" THEN "acme" ELSE "globex"

\* Rows an INSERT can carry; posted_at is a date written as YYYYMMDD.
JobRows ==
    [id : {"j1", "j2"}, job_hash : JobHashes, company : {"acme", "globex"},
     location : {"NYC", "Remote"}, posted_at : {20240115, 20240220}, version : 1..MaxVersion]

\* PARTITION BY toYYYYMM(posted_at)
Partition(r) == r.posted_at \div 100

\* ORDER BY (company, location, posted_at, id)
SortKey(r) == <<r.company, r.location, r.posted_at, r.id>>

JobsInit ==
    /\ jRows = {}
    /\ jSeq = 0
    /\ jWritten = {}

\* INSERT INTO jobs: the row lands in a new data part.
JobsInsert ==
    /\ jSeq < MaxWrites
    /\ \E r \in JobRows :
         /\ r.company = CompanyOfHash(r.job_hash)
         /\ LET row == [id |-> r.id, job_hash |-> r.job_hash, company |-> r.company,
                        location |-> r.location, posted_at |-> r.posted_at,
                        version |-> r.version, seq |-> jSeq + 1]
            IN  /\ jRows' = jRows \cup {row}
                /\ jWritten' = jWritten \cup {row}
    /\ jSeq' = jSeq + 1
    /\ UNCHANGED nonJobsVars

\* ReplacingMergeTree(version): of two rows of one partition with the same
\* sorting key, a merge drops the one with the lower version (the earlier
\* inserted one when the versions are equal).
Replaces(w, l) ==
    /\ w # l
    /\ Partition(w) = Partition(l)
    /\ SortKey(w) = SortKey(l)
    /\ \/ w.version > l.version
       \/ w.version = l.version /\ w.seq > l.seq

\* A background merge of the parts holding two rows.
JobsMerge ==
    /\ \E w, l \in jRows :
         /\ Replaces(w, l)
         /\ jRows' = jRows \ {l}
    /\ UNCHANGED <<jSeq, jWritten>>
    /\ UNCHANGED nonJobsVars

\* The table as OPTIMIZE TABLE jobs FINAL leaves it: nothing left to merge.
FullyMerged == \A w, l \in jRows : ~Replaces(w, l)

JobsNext ==
    \/ JobsInsert
    \/ JobsMerge

JobsOff == jRows = {} /\ jSeq = 0 /\ jWritten = {}

\* ------------------------- company discovery activities, companies table

CompanyNames == {"Acme", "Acme Inc"}
Descriptions == {"", "job board"}

\* One entry of the OSINT service's code-host search response.
GitHubCompanies == [Name : CompanyNames, Domain : Domains, Description : Descriptions]

NoTask == [task |-> "none", companies |-> <<>>, err |-> FALSE]

\* COALESCE(a, b): a unless it is NULL.  A Go string parameter is never NULL.
Coalesce(a, b) == IF a = "NULL" THEN b ELSE a

\* INSERT INTO companies ... ON CONFLICT (domain) DO UPDATE SET name = EXCLUDED.name,
\* description = COALESCE(EXCLUDED.description, companies.description)
InsertCompany(rows, c) ==
    IF \E r \in rows : r.domain = c.Domain
    THEN {IF r.domain = c.Domain
          THEN [r EXCEPT !.name = c.Name,
                         !.description = Coalesce(c.Description, r.description)]
          ELSE r : r \in rows}
    ELSE rows \cup {[name |-> c.Name, domain |-> c.Domain,
                     description |-> c.Description, source |-> c.Source]}

RECURSIVE StoreAll(_, _, _, _)
\* The loop over the response: storeCompany for entry i, whose error (i \in fails)
\* is logged as a warning; without a connection storeCompany returns nil at once.
StoreAll(rows, cs, i, fails) ==
    IF i > Len(cs) THEN rows
    ELSE StoreAll(IF i \in fails \/ ~coConnected THEN rows ELSE InsertCompany(rows, cs[i]),
                  cs, i + 1, fails)

CompInit ==
    /\ coConnected \in BOOLEAN
    /\ coRows = {}
    /\ coLast = NoTask
    /\ coCalls = 0

\* DiscoverCompaniesFromGitHub: a transport or decoding error, or the response's
\* companies, each passed to storeCompany.
DiscoverCompaniesFromGitHub ==
    /\ coCalls < MaxDiscoverCalls
    /\ coCalls' = coCalls + 1
    /\ \/ /\ coLast' = [task |-> "DiscoverCompaniesFromGitHub", companies |-> <<>>, err |-> TRUE]
          /\ UNCHANGED coRows
       \/ \E resp \in SeqsUpTo(GitHubCompanies, MaxPerResponse) :
            LET cs == [i \in 1..Len(resp) |->
                         [Name |-> resp[i].Name, Domain |-> resp[i].Domain,
                          Description |-> resp[i].Description, Source |-> "github"]]
            IN  /\ coLast' = [task |-> "DiscoverCompaniesFromGitHub", companies |-> cs, err |-> FALSE]
                /\ \E fails \in SUBSET (1..Len(cs)) : coRows' = StoreAll(coRows, cs, 1, fails)
    /\ UNCHANGED coConnected
    /\ UNCHANGED nonCompVars

\* DiscoverCompaniesFromGoogleDorks: an error, or one CompanyInfo per distinct
\* domain of the returned URLs, in the iteration order of domainMap.
DiscoverCompaniesFromGoogleDorks ==
    /\ coCalls < MaxDiscoverCalls
    /\ coCalls' = coCalls + 1
    /\ \/ coLast' = [task |-> "DiscoverCompaniesFromGoogleDorks", companies |-> <<>>, err |-> TRUE]
       \/ \E ds \in SeqsUpTo(Domains, Cardinality(Domains)) :
            /\ NoDup(ds)
            /\ coLast' = [task |-> "DiscoverCompaniesFromGoogleDorks",
                          companies |-> [i \in 1..Len(ds) |->
                                           [Name |-> ds[i], Domain |-> ds[i],
                                            Description |-> "", Source |-> "google_dork"]],
                          err |-> FALSE]
    /\ UNCHANGED <<coConnected, coRows>>
    /\ UNCHANGED nonCompVars

\* AddCompanyManually: returns the domain as a company.
AddCompanyManually ==
    /\ coCalls < MaxDiscoverCalls
    /\ coCalls' = coCalls + 1
    /\ \E d \in Domains :
         coLast' = [task |-> "AddCompanyManually",
                    companies |-> <<[Name |-> d, Domain |-> d, Description |-> "", Source |-> "manual"]>>,
                    err |-> FALSE]
    /\ UNCHANGED <<coConnected, coRows>>
    /\ UNCHANGED nonCompVars

CompNext ==
    \/ DiscoverCompaniesFromGitHub
    \/ DiscoverCompaniesFromGoogleDorks
    \/ AddCompanyManually

CompOff == coConnected = FALSE /\ coRows = {} /\ coLast = NoTask /\ coCalls = 0

\* ------------------------------------------ schedule-discovery (the trigger)

\* client.ScheduleOptions as passed to ScheduleClient().Create: ID, cron spec and
\* action; the Overlap field is not set.
ScheduleOptions ==
    [ID |-> "continuous-discovery-schedule", CronExpressions |-> <<"0 */6 * * *">>,
     WorkflowID |-> "continuous-discovery-workflow", Overlap |-> "unspecified"]

\* An overlap policy under which every firing starts a run.
OverlapAllowAll(options) == "AllowAll"

\* The policy in force: an unspecified Overlap is the engine's default, Skip.
OverlapPolicy(options) ==
    IF options.Overlap = "unspecified" THEN "Skip" ELSE options.Overlap

SchedInit ==
    /\ sExists = FALSE
    /\ sFatal = 0
    /\ sFires = 0
    /\ sSkipped = 0
    /\ sRunning = {}

\* main(): Create the schedule; if it exists already Create fails and the
\* program ends in log.Fatalf, leaving the schedule as it was.
ScheduleCreate ==
    /\ sFatal < MaxCreates
    /\ IF sExists
       THEN sFatal' = sFatal + 1 /\ UNCHANGED sExists
       ELSE sExists' = TRUE /\ UNCHANGED sFatal
    /\ UNCHANGED <<sFires, sSkipped, sRunning>>
    /\ UNCHANGED nonSchedVars

\* The cron spec fires: under Skip nothing is started while a run of the
\* schedule is in progress; otherwise a run of ContinuousDiscoveryWorkflow starts.
ScheduleFires ==
    /\ sExists
    /\ sFires < MaxFires
    /\ sFires' = sFires + 1
    /\ IF OverlapPolicy(ScheduleOptions) = "Skip" /\ sRunning # {}
       THEN sSkipped' = sSkipped + 1 /\ UNCHANGED sRunning
       ELSE sRunning' = sRunning \cup {sFires + 1} /\ UNCHANGED sSkipped
    /\ UNCHANGED <<sExists, sFatal>>
    /\ UNCHANGED nonSchedVars

\* A run of ContinuousDiscoveryWorkflow returns.
ScheduledRunCloses ==
    /\ \E r \in sRunning : sRunning' = sRunning \ {r}
    /\ UNCHANGED <<sExists, sFatal, sFires, sSkipped>>
    /\ UNCHANGED nonSchedVars

SchedNext ==
    \/ ScheduleCreate
    \/ ScheduleFires
    \/ ScheduledRunCloses

SchedOff == sExists = FALSE /\ sFatal = 0 /\ sFires = 0 /\ sSkipped = 0 /\ sRunning = {}

\* ------------------------------- the discovered_urls upsert, on any table

\* Column values a stored row can hold besides confidence and priority: as this
\* activity writes them, or as another discovery channel and the crawler left them.
StoredProfiles ==
    {[page_type |-> "careers", ats_platform |-> "", discovered_via |-> "osint",
      crawl_status |-> "pending"],
     [page_type |-> "jobs", ats_platform |-> "greenhouse", discovered_via |-> "manual",
      crawl_status |-> "completed"]}

\* A stored row of discovered_urls for URL u with SERIAL id.
StoredRowsOf(u, id) ==
    {[id |-> id, company_id |-> c, url |-> u, url_hash |-> Sha256Hex(u),
      page_type |-> pr.page_type, confidence |-> cf, ats_platform |-> pr.ats_platform,
      discovered_via |-> pr.discovered_via, priority |-> p, crawl_status |-> pr.crawl_status] :
        c \in {"1", "NULL"}, pr \in StoredProfiles, cf \in {5, 9}, p \in {1, 2}}

\* Tables of at most two rows, url_hash being UNIQUE.
StoredTables ==
    {<<>>} \cup {<<r>> : r \in StoredRowsOf("u1", 1) \cup StoredRowsOf("u2", 1)}
           \cup {<<r1, r2>> : r1 \in StoredRowsOf("u1", 1), r2 \in StoredRowsOf("u2", 2)}

\* Candidate pages the activity can be given for a URL.
UpsertPages ==
    {[URL |-> u, Domain |-> DomainOf(u), PageType |-> pt, Confidence |-> c,
      ATSPlatform |-> ats, Priority |-> p] :
        u \in URLs, pt \in {"careers", "jobs"}, c \in {5, 9}, ats \in {"", "greenhouse"},
        p \in {1, 2}}

UpsertInit ==
    /\ tRows \in StoredTables
    /\ tPrev = tRows
    /\ tRow = <<>>
    /\ tCount = 0

\* The INSERT ... ON CONFLICT statement of one loop iteration is executed for a
\* page, with the company id the lookup found (or NULL).
UpsertExecuted ==
    /\ tCount < MaxUpserts
    /\ tCount' = tCount + 1
    /\ \E page \in UpsertPages, companyID \in {"1", "NULL"} :
         /\ tRow' = NewRow(page, companyID, 10 + tCount)
         /\ tRows' = Upsert(tRows, NewRow(page, companyID, 10 + tCount))
    /\ tPrev' = tRows
    /\ UNCHANGED nonUpsertVars

UpsertNext == UpsertExecuted

UpsertOff == tRows = <<>> /\ tPrev = <<>> /\ tRow = <<>> /\ tCount = 0

\* ----------------------------------------------- the proxy manager service

\* The proxies of the list, by position (0-based, as currentIndex counts).
ProxyIdx == 0..(NumProxies - 1)

Countries == {"US", "DE"}

\* The goroutines that serve HTTP requests.
Handlers == {"h1", "h2"}

\* The calls a request handler makes on the manager.
ProxyOps ==
    {[op |-> "GetNextProxy", country |-> "-", proxy |-> -1]}
      \cup {[op |-> "GetProxyByCountry", country |-> c, proxy |-> -1] : c \in Countries}
      \cup {[op |-> o, country |-> "-", proxy |-> i] :
                o \in {"MarkProxySuccess", "MarkProxyFailure"}, i \in ProxyIdx}

NoOp == [op |-> "idle", country |-> "-", proxy |-> -1]

\* No proxy returned yet, or an error returned.
NoReturn == [op |-> "none", proxy |-> -1, IsHealthy |-> FALSE, marked |-> 0]

\* proxy.IsHealthy || proxy.FailCount < 3
Eligible(p) == p.IsHealthy \/ p.FailCount < FailLimit

\* pm.mu.Lock() can be taken / pm.mu.RLock() can be taken.
CanLock == mu.writer = "none" /\ mu.readers = {}

CanRLock == mu.writer = "none"

\* The lock a goroutine holds.
Holds(t) ==
    IF mu.writer = t THEN "exclusive" ELSE IF t \in mu.readers THEN "shared" ELSE "none"

\* The list as LoadProxiesFromEnv / LoadProxiesFromRedis unmarshal it: is_healthy
\* as the JSON gives it (false when absent), no failures counted yet.
ProxyInit ==
    /\ proxies \in [ProxyIdx -> {[Country |-> c, IsHealthy |-> b, FailCount |-> 0] :
                                    c \in Countries, b \in BOOLEAN}]
    /\ proxies[0].Country = "US"
    /\ currentIndex = 0
    /\ mu = [writer |-> "none", readers |-> {}]
    /\ hpc = [h \in Handlers |-> NoOp]
    /\ gpc = [i \in ProxyIdx |-> "none"]
    /\ gVal = [i \in ProxyIdx |-> [ok |-> FALSE, fc |-> 0]]
    /\ marked = [i \in ProxyIdx |-> 0]
    /\ lastRet = NoReturn
    /\ returns = <<>>
    /\ pCalls = 0
    /\ pRounds = 0

\* A handler enters a manager method and takes its lock: RLock in
\* GetProxyByCountry, Lock in the three others.
HandlerLocks(h) ==
    /\ hpc[h] = NoOp
    /\ pCalls < MaxProxyCalls
    /\ \E o \in ProxyOps :
         /\ IF o.op = "GetProxyByCountry"
            THEN CanRLock /\ mu' = [mu EXCEPT !.readers = @ \cup {h}]
            ELSE CanLock /\ mu' = [mu EXCEPT !.writer = h]
         /\ hpc' = [hpc EXCEPT ![h] = o]
    /\ pCalls' = pCalls + 1
    /\ UNCHANGED <<proxies, currentIndex, gpc, gVal, marked, lastRet, returns, pRounds>>
    /\ UNCHANGED nonProxyVars

\* The positions GetNextProxy visits, in order: (currentIndex + k) % len.
ScanAt(k) == (currentIndex + k) % NumProxies

\* A scan that starts at the head of the list on every call.
FoundFromHead ==
    IF \E j \in ProxyIdx : Eligible(proxies[j])
    THEN LET j == CHOOSE m \in ProxyIdx :
                    Eligible(proxies[m]) /\ \A o \in 0..(m - 1) : ~Eligible(proxies[o])
         IN  ((j - currentIndex - 1 + NumProxies) % NumProxies) + 1
    ELSE 0

\* The number of steps after which the scan finds an eligible proxy, 0 if none.
FoundAfter ==
    IF \E k \in 1..NumProxies : Eligible(proxies[ScanAt(k)])
    THEN CHOOSE k \in 1..NumProxies :
            /\ Eligible(proxies[ScanAt(k)])
            /\ \A j \in 1..(k - 1) : ~Eligible(proxies[ScanAt(j)])
    ELSE 0

\* GetNextProxy under the exclusive lock: advance currentIndex to the next
\* eligible proxy and return it, or return the error after len attempts.
GetNextProxy(h) ==
    /\ hpc[h].op = "GetNextProxy"
    /\ LET k == FoundAfter
           i == ScanAt(k)
       IN  /\ currentIndex' = i
           /\ IF k = 0
              THEN lastRet' = [NoReturn EXCEPT !.op = "GetNextProxy"] /\ returns' = returns
              ELSE /\ lastRet' = [op |-> "GetNextProxy", proxy |-> i,
                                  IsHealthy |-> proxies[i].IsHealthy, marked |-> marked[i]]
                   /\ returns' = Append(returns,
                                   [proxy |-> i,
                                    allEligible |-> \A j \in ProxyIdx : Eligible(proxies[j])])
    /\ hpc' = [hpc EXCEPT ![h] = NoOp]
    /\ mu' = [mu EXCEPT !.writer = "none"]
    /\ UNCHANGED <<proxies, gpc, gVal, marked, pCalls, pRounds>>
    /\ UNCHANGED nonProxyVars

\* GetProxyByCountry under the shared lock: the first eligible proxy of the
\* country in list order, or the error.
GetProxyByCountry(h) ==
    /\ hpc[h].op = "GetProxyByCountry"
    /\ LET match == {i \in ProxyIdx : proxies[i].Country = hpc[h].country /\ Eligible(proxies[i])}
       IN  IF match = {}
           THEN lastRet' = [NoReturn EXCEPT !.op = "GetProxyByCountry"]
           ELSE LET i == CHOOSE m \in match : \A o \in match : m <= o
                IN  lastRet' = [op |-> "GetProxyByCountry", proxy |-> i,
                                IsHealthy |-> proxies[i].IsHealthy, marked |-> marked[i]]
    /\ hpc' = [hpc EXCEPT ![h] = NoOp]
    /\ mu' = [mu EXCEPT !.readers = @ \ {h}]
    /\ UNCHANGED <<proxies, currentIndex, gpc, gVal, marked, returns, pCalls, pRounds>>
    /\ UNCHANGED nonProxyVars

\* MarkProxySuccess under the exclusive lock: FailCount = 0, IsHealthy = true.
MarkProxySuccess(h) ==
    /\ hpc[h].op = "MarkProxySuccess"
    /\ proxies' = [proxies EXCEPT ![hpc[h].proxy].FailCount = 0,
                                  ![hpc[h].proxy].IsHealthy = TRUE]
    /\ marked' = [marked EXCEPT ![hpc[h].proxy] = 0]
    /\ hpc' = [hpc EXCEPT ![h] = NoOp]
    /\ mu' = [mu EXCEPT !.writer = "none"]
    /\ UNCHANGED <<currentIndex, gpc, gVal, lastRet, returns, pCalls, pRounds>>
    /\ UNCHANGED nonProxyVars

\* MarkProxyFailure under the exclusive lock: FailCount++, and IsHealthy = false
\* once FailCount >= 3.
MarkProxyFailure(h) ==
    /\ hpc[h].op = "MarkProxyFailure"
    /\ LET i == hpc[h].proxy
           fc == proxies[i].FailCount + 1
       IN  /\ proxies' = [proxies EXCEPT ![i].FailCount = fc,
                                         ![i].IsHealthy = IF fc >= FailLimit THEN FALSE ELSE @]
           /\ marked' = [marked EXCEPT ![i] = IF @ < FailLimit THEN @ + 1 ELSE @]
    /\ hpc' = [hpc EXCEPT ![h] = NoOp]
    /\ mu' = [mu EXCEPT !.writer = "none"]
    /\ UNCHANGED <<currentIndex, gpc, gVal, lastRet, returns, pCalls, pRounds>>
    /\ UNCHANGED nonProxyVars

\* RunHealthChecks, one tick: under the exclusive lock one goroutine per proxy
\* is started, and the lock is released while they run.
HealthTick ==
    /\ pRounds < MaxRounds
    /\ pRounds' = pRounds + 1
    /\ CanLock
    /\ \A i \in ProxyIdx : gpc[i] \in {"none", "done"}
    /\ gpc' = [i \in ProxyIdx |-> "check"]
    /\ UNCHANGED <<proxies, currentIndex, mu, hpc, gVal, marked, lastRet, returns, pCalls>>
    /\ UNCHANGED nonProxyVars

\* The goroutine of proxy i: isHealthy := pm.CheckProxyHealth(p)
HealthChecked(i) ==
    /\ gpc[i] = "check"
    /\ \E ok \in BOOLEAN : gVal' = [gVal EXCEPT ![i].ok = ok]
    /\ gpc' = [gpc EXCEPT ![i] = "setHealthy"]
    /\ UNCHANGED <<proxies, currentIndex, mu, hpc, marked, lastRet, returns, pCalls, pRounds>>
    /\ UNCHANGED nonProxyVars

\* p.IsHealthy = isHealthy
HealthSetsFlag(i) ==
    /\ gpc[i] = "setHealthy"
    /\ proxies' = [proxies EXCEPT ![i].IsHealthy = gVal[i].ok]
    /\ marked' = [marked EXCEPT ![i] = IF gVal[i].ok THEN 0 ELSE @]
    /\ gpc' = [gpc EXCEPT ![i] = IF gVal[i].ok THEN "reset" ELSE "load"]
    /\ UNCHANGED <<currentIndex, mu, hpc, gVal, lastRet, returns, pCalls, pRounds>>
    /\ UNCHANGED nonProxyVars

\* p.FailCount++, the read
HealthLoadsCount(i) ==
    /\ gpc[i] = "load"
    /\ gVal' = [gVal EXCEPT ![i].fc = proxies[i].FailCount]
    /\ gpc' = [gpc EXCEPT ![i] = "store"]
    /\ UNCHANGED <<proxies, currentIndex, mu, hpc, marked, lastRet, returns, pCalls, pRounds>>
    /\ UNCHANGED nonProxyVars

\* p.FailCount++, the write
HealthStoresCount(i) ==
    /\ gpc[i] = "store"
    /\ proxies' = [proxies EXCEPT ![i].FailCount = gVal[i].fc + 1]
    /\ gVal' = [gVal EXCEPT ![i].fc = 0]
    /\ gpc' = [gpc EXCEPT ![i] = "done"]
    /\ UNCHANGED <<currentIndex, mu, hpc, marked, lastRet, returns, pCalls, pRounds>>
    /\ UNCHANGED nonProxyVars

\* p.FailCount = 0
HealthResetsCount(i) ==
    /\ gpc[i] = "reset"
    /\ proxies' = [proxies EXCEPT ![i].FailCount = 0]
    /\ marked' = [marked EXCEPT ![i] = 0]
    /\ gpc' = [gpc EXCEPT ![i] = "done"]
    /\ UNCHANGED <<currentIndex, mu, hpc, gVal, lastRet, returns, pCalls, pRounds>>
    /\ UNCHANGED nonProxyVars

\* The fields of a proxy the next step of a goroutine reads or writes.
HandlerAccesses(h) ==
    IF hpc[h].op = "GetNextProxy"
    THEN {[field |-> "IsHealthy", mode |-> "read"], [field |-> "FailCount", mode |-> "read"],
          [field |-> "LastUsed", mode |-> "write"]}
    ELSE IF hpc[h].op = "GetProxyByCountry"
    THEN {[field |-> "IsHealthy", mode |-> "read"], [field |-> "FailCount", mode |-> "read"],
          [field |-> "LastUsed", mode |-> "write"]}
    ELSE IF hpc[h].op = "MarkProxySuccess"
    THEN {[field |-> "FailCount", mode |-> "write"], [field |-> "IsHealthy", mode |-> "write"]}
    ELSE IF hpc[h].op = "MarkProxyFailure"
    THEN {[field |-> "FailCount", mode |-> "read"], [field |-> "FailCount", mode |-> "write"],
          [field |-> "IsHealthy", mode |-> "write"]}
    ELSE {}

HealthAccesses(i) ==
    IF gpc[i] = "check" THEN {[field |-> "AvgLatency", mode |-> "write"]}
    ELSE IF gpc[i] = "setHealthy" THEN {[field |-> "IsHealthy", mode |-> "write"]}
    ELSE IF gpc[i] = "load" THEN {[field |-> "FailCount", mode |-> "read"]}
    ELSE IF gpc[i] \in {"store", "reset"} THEN {[field |-> "FailCount", mode |-> "write"]}
    ELSE {}

ProxyNext ==
    \/ \E h \in Handlers : HandlerLocks(h)
    \/ \E h \in Handlers : GetNextProxy(h)
    \/ \E h \in Handlers : GetProxyByCountry(h)
    \/ \E h \in Handlers : MarkProxySuccess(h)
    \/ \E h \in Handlers : MarkProxyFailure(h)
    \/ HealthTick
    \/ \E i \in ProxyIdx : HealthChecked(i)
    \/ \E i \in ProxyIdx : HealthSetsFlag(i)
    \/ \E i \in ProxyIdx : HealthLoadsCount(i)
    \/ \E i \in ProxyIdx : HealthStoresCount(i)
    \/ \E i \in ProxyIdx : HealthResetsCount(i)

ProxyOff ==
    /\ proxies = <<>> /\ currentIndex = 0 /\ mu = <<>> /\ hpc = <<>> /\ gpc = <<>>
    /\ gVal = <<>> /\ marked = <<>> /\ lastRet = <<>> /\ returns = <<>>
    /\ pCalls = 0 /\ pRounds = 0

\* ------------------------------------------- the crawl coordinator workflow

\* A scheduling loop that counts only the full batches.
TotalBatchesFloor(n) == n \div batchSize

\* totalBatches := (len(urls) + batchSize - 1) / batchSize
TotalBatches(n) == (n + batchSize - 1) \div batchSize

\* urls[start:end] of iteration i (from 0) of the scheduling loop, as a pending
\* CrawlJobBatch future.
BatchFuture(n, i) ==
    [start |-> i * batchSize, end |-> Min(i * batchSize + batchSize, n),
     st |-> "pending", Successful |-> 0, Failed |-> 0]

\* The counts CrawlJobBatch can return for a batch of len URLs.
BatchCounts(len) == {0, len - 1, len} \cap (0..len)

\* Sum of f over the batch futures in set S.
RECURSIVE SumSuccessful(_, _)
SumSuccessful(futs, S) ==
    IF S = {} THEN 0
    ELSE LET i == CHOOSE x \in S : TRUE
         IN  futs[i].Successful + SumSuccessful(futs, S \ {i})

RECURSIVE SumFailed(_, _)
SumFailed(futs, S) ==
    IF S = {} THEN 0
    ELSE LET i == CHOOSE x \in S : TRUE
         IN  futs[i].Failed + SumFailed(futs, S \ {i})

CoordInit ==
    /\ wpc = "start"
    /\ wUrls = 0
    /\ wFut = <<>>
    /\ wGet = 0
    /\ wResult = [Successful |-> 0, Failed |-> 0, TotalCrawled |-> 0]
    /\ wRetErr = "nil"

\* DiscoverJobURLs returns: on an error the workflow returns it; otherwise the
\* scheduling loop starts one CrawlJobBatch activity per batch, without waiting.
CoordDiscovered ==
    /\ wpc = "start"
    /\ \/ /\ wpc' = "done"
          /\ wRetErr' = "err"
          /\ UNCHANGED <<wUrls, wFut, wGet>>
       \/ \E n \in 0..MaxURLs :
            /\ wUrls' = n
            /\ wFut' = [k \in 1..TotalBatches(n) |-> BatchFuture(n, k - 1)]
            /\ wGet' = 1
            /\ wpc' = "collect"
            /\ wRetErr' = wRetErr
    /\ UNCHANGED wResult
    /\ UNCHANGED nonCoordVars

\* A CrawlJobBatch activity closes: with its counts, or with an error once its
\* attempts are used up.
CoordBatchCompletes(k) ==
    /\ wpc = "collect"
    /\ wFut[k].st = "pending"
    /\ \/ wFut' = [wFut EXCEPT ![k].st = "err"]
       \/ \E s \in BatchCounts(wFut[k].end - wFut[k].start) :
            wFut' = [wFut EXCEPT ![k].st = "ok", ![k].Successful = s,
                                 ![k].Failed = wFut[k].end - wFut[k].start - s]
    /\ UNCHANGED <<wpc, wUrls, wGet, wResult, wRetErr>>
    /\ UNCHANGED nonCoordVars

\* One iteration of the fan-in loop: future.Get returns, an error counts as one
\* failure, a result adds its counts.
CoordGet ==
    /\ wpc = "collect"
    /\ wGet <= Len(wFut)
    /\ wFut[wGet].st # "pending"
    /\ wResult' = IF wFut[wGet].st = "err"
                  THEN [wResult EXCEPT !.Failed = @ + 1]
                  ELSE [wResult EXCEPT !.Successful = @ + wFut[wGet].Successful,
                                       !.Failed = @ + wFut[wGet].Failed]
    /\ wGet' = wGet + 1
    /\ UNCHANGED <<wpc, wUrls, wFut, wRetErr>>
    /\ UNCHANGED nonCoordVars

\* result.TotalCrawled = result.Successful + result.Failed; return result, nil
CoordReturn ==
    /\ wpc = "collect"
    /\ wGet > Len(wFut)
    /\ wResult' = [wResult EXCEPT !.TotalCrawled = wResult.Successful + wResult.Failed]
    /\ wpc' = "done"
    /\ UNCHANGED <<wUrls, wFut, wGet, wRetErr>>
    /\ UNCHANGED nonCoordVars

CoordNext ==
    \/ CoordDiscovered
    \/ \E k \in 1..Len(wFut) : CoordBatchCompletes(k)
    \/ CoordGet
    \/ CoordReturn

CoordOff ==
    /\ wpc = "off" /\ wUrls = 0 /\ wFut = <<>> /\ wGet = 0 /\ wResult = <<>>
    /\ wRetErr = "nil"

InitCrawl == CrawlInit /\ DiscOff /\ ContOff /\ QueueOff /\ JobsOff /\ CompOff /\ SchedOff /\ UpsertOff /\ ProxyOff /\ CoordOff

SpecCrawl == InitCrawl /\ [][CrawlNext]_vars

InitDiscovery == DiscInit /\ CrawlOff /\ ContOff /\ QueueOff /\ JobsOff /\ CompOff /\ SchedOff /\ UpsertOff /\ ProxyOff /\ CoordOff

SpecDiscovery == InitDiscovery /\ [][DiscNext]_vars

\* The engine resumes a workflow whose awaited result is there, and the worker
\* polls its queue for as long as it runs; a cancellation may never come.
DiscWorkerFairness ==
    /\ WF_vars(DiscStart)
    /\ WF_vars(DiscWorkerCompletes)
    /\ WF_vars(DiscCollectCompanies)
    /\ WF_vars(DiscCollectPages)
    /\ WF_vars(DiscCollectATS)
    /\ WF_vars(DiscQueued)
    /\ WF_vars(DiscCollectCrawls)

SpecDiscoveryWorker == InitDiscovery /\ [][DiscWorkerNext]_vars /\ DiscWorkerFairness

InitContinuous == ContInit /\ CrawlOff /\ DiscOff /\ QueueOff /\ JobsOff /\ CompOff /\ SchedOff /\ UpsertOff /\ ProxyOff /\ CoordOff

SpecContinuous == InitContinuous /\ [][ContNext]_vars

InitQueue == QueueInit /\ CrawlOff /\ DiscOff /\ ContOff /\ JobsOff /\ CompOff /\ SchedOff /\ UpsertOff /\ ProxyOff /\ CoordOff

SpecQueue == InitQueue /\ [][QueueNext]_vars

InitJobs == JobsInit /\ CrawlOff /\ DiscOff /\ ContOff /\ QueueOff /\ CompOff /\ SchedOff /\ UpsertOff /\ ProxyOff /\ CoordOff

SpecJobs == InitJobs /\ [][JobsNext]_vars

InitCompanies == CompInit /\ CrawlOff /\ DiscOff /\ ContOff /\ QueueOff /\ JobsOff /\ SchedOff /\ UpsertOff /\ ProxyOff /\ CoordOff

SpecCompanies == InitCompanies /\ [][CompNext]_vars

InitSchedule == SchedInit /\ CrawlOff /\ DiscOff /\ ContOff /\ QueueOff /\ JobsOff /\ CompOff /\ UpsertOff /\ ProxyOff /\ CoordOff

SpecSchedule == InitSchedule /\ [][SchedNext]_vars

InitUpsert == UpsertInit /\ CrawlOff /\ DiscOff /\ ContOff /\ QueueOff /\ JobsOff /\ CompOff /\ SchedOff /\ ProxyOff /\ CoordOff

SpecUpsert == InitUpsert /\ [][UpsertNext]_vars

InitProxy == ProxyInit /\ CrawlOff /\ DiscOff /\ ContOff /\ QueueOff /\ JobsOff /\ CompOff /\ SchedOff /\ UpsertOff /\ CoordOff

SpecProxy == InitProxy /\ [][ProxyNext]_vars

InitCoord == CoordInit /\ CrawlOff /\ DiscOff /\ ContOff /\ QueueOff /\ JobsOff /\ CompOff /\ SchedOff /\ UpsertOff /\ ProxyOff

SpecCoord == InitCoord /\ [][CoordNext]_vars

\* =================================================================== claims
\* ------------------------------------------------ Career-Page Crawl claims

\* Links of the retained prefix whose outcome is o.
LinksWith(o) == {i \in 1..Retained(cNumLinks) : cOutcome[i] = o}

\* Scores of the jobs in a batch, as a set.
BatchScores(b) == {b[k].score : k \in 1..Len(b)}

\* The end-to-end scenario: 3 links, 2 of them parsed (scores 80 and 60), storage succeeded.
C1_Scenario ==
    /\ cpc = "done"
    /\ cNumLinks = 3
    /\ Cardinality(LinksWith("parsed")) = 2
    /\ BatchScores(cJobs) = {60, 80}
    /\ cResult.Success

\* C1: in a crawl whose page yields 3 job links, 2 of which parse with quality
\* scores 80 and 60, under a quality gate of 70 exactly 1 job is stored and the
\* result has JobsFound = 2 and JobsStored = 1.
C1_EndToEndCounts ==
    C1_Scenario =>
        /\ cResult.JobsFound = 2
        /\ cResult.JobsStored = 1
        /\ Len(cBatch) = 1

\* C2: no job whose quality score is below the threshold is ever in the batch
\* handed to the storage task.
C2_OnlyGatedJobsReachStorage ==
    \A k \in 1..Len(cBatch) : cBatch[k].score >= QualityThreshold

\* C5: every execution of the crawl returns a result object and a nil error,
\* whichever activity failed and even after its retries are exhausted.
C5_CrawlNeverReturnsError ==
    cpc = "done" =>
        /\ cRetErr = "nil"
        /\ cResult \in [Success : BOOLEAN, JobsFound : Nat, JobsStored : Nat,
                        ErrorMessage : STRING]

\* A crawl that returned after the storage activity failed on its last attempt.
C5_Witness ==
    /\ cpc = "done"
    /\ cResult.ErrorMessage = "failed to store jobs"
    /\ ~cResult.Success

\* Fetch and extraction succeeded and every retained link came back not parseable.
C6_AllNotParseable ==
    /\ cpc = "done"
    /\ cNumLinks > 0
    /\ \A i \in 1..Min(cNumLinks, MaxJobsToCrawl) : cOutcome[i] = "not_parseable"

\* C6: if every retained link yields NotParseable, the crawl returns
\* Success = true with JobsStored = 0.
C6_NotParseableIsSuccess ==
    C6_AllNotParseable => (cResult.Success /\ cResult.JobsStored = 0 /\ cRetErr = "nil")

C6_Witness == C6_AllNotParseable /\ cNumLinks = 3

\* The link indices of the job-page fetches scheduled so far, in scheduling order
\* (the career page itself is link 0).
RECURSIVE JobFetches(_)
JobFetches(cmds) ==
    IF cmds = <<>> THEN <<>>
    ELSE LET h == Head(cmds)
         IN  IF h[1] = "CrawlCareerPage" /\ h[2] > 0
             THEN <<h[2]>> \o JobFetches(Tail(cmds))
             ELSE JobFetches(Tail(cmds))

\* C7: for n extracted links the crawl schedules job-page fetch and parse
\* activities only for the first min(n, 5) links, in extraction order, and
\* reports JobsFound = min(n, 5).
C7_BoundedFanOut ==
    LET cap == Min(cNumLinks, MaxJobsToCrawl)
        f == JobFetches(cCmds)
    IN  /\ \A k \in 1..Len(cCmds) : cCmds[k][2] <= cap
        /\ \A j \in 1..Len(f) : f[j] = j
        /\ Len(f) <= cap
        /\ cpc = "done" /\ cNumLinks > 0 => (cResult.JobsFound = cap /\ Len(f) = cap)

\* 12 links extracted, the crawl finished: 5 fetched, JobsFound = 5.
C7_Witness ==
    /\ cpc = "done"
    /\ cNumLinks = 12
    /\ cResult.JobsFound = 5
    /\ Len(JobFetches(cCmds)) = 5

\* The activity scheduled by a step, when the step scheduled one.
LastCmd(cmds) == cmds[Len(cmds)]

\* C14: the steps of a crawl are strictly ordered.  Link extraction is
\* scheduled only by the resumption that received the page fetch's successful
\* result; the parse of a link only by the one that received that link's
\* successful fetch; a link's fetch only when every earlier link has been dealt
\* with; the storage task only when every retained link has been dealt with.
C14_StrictStepOrder ==
    [][Len(cCmds') > Len(cCmds) =>
         LET c == LastCmd(cCmds')
         IN  /\ Len(cCmds') = Len(cCmds) + 1
             /\ (c[1] = "CrawlCareerPage" /\ c[2] = 0) => cpc = "init"
             /\ c[1] = "ExtractJobLinks" =>
                    (cpc = "awaitPage" /\ cResult'.ErrorMessage = "" /\ cpc' = "awaitLinks")
             /\ (c[1] = "CrawlCareerPage" /\ c[2] > 0) =>
                    /\ cpc \in {"awaitLinks", "awaitJobPage", "awaitParse"}
                    /\ \A i \in 1..(c[2] - 1) : cOutcome'[i] # "none"
             /\ c[1] = "ParseJobPage" =>
                    /\ cpc = "awaitJobPage"
                    /\ LastCmd(cCmds) = <<"CrawlCareerPage", c[2]>>
                    /\ cOutcome'[c[2]] = "none"
             /\ c[1] = "StoreJobsInClickHouse" =>
                    /\ \A i \in 1..Retained(cNumLinks) : cOutcome'[i] # "none"
                    /\ \A k \in 1..Len(cCmds) : cCmds[k][1] # "StoreJobsInClickHouse"]_vars

\* Three retained links were fetched and parsed in turn and the storage task is
\* now awaited.
C14_Witness ==
    /\ cpc = "awaitStore"
    /\ cNumLinks = 3
    /\ Len(cJobs) = 3
    /\ Len(cCmds) = 9

\* C19: a fetch error, an unsuccessful fetch or a parse error for one link
\* never stops the loop: once the loop is over every retained link has been
\* fetched, and the jobs handed to storage are exactly those of the links that
\* fetched and parsed successfully, in link order.
C19_LinkFailuresDoNotStopLoop ==
    (cpc \in {"awaitStore", "done"} /\ cNumLinks > 0) =>
        /\ Len(JobFetches(cCmds)) = Retained(cNumLinks)
        /\ \A i \in 1..Retained(cNumLinks) : cOutcome[i] # "none"
        /\ {cJobs[k].link : k \in 1..Len(cJobs)} = LinksWith("parsed")
        /\ Len(cJobs) = Cardinality(LinksWith("parsed"))
        /\ \A k \in 1..(Len(cJobs) - 1) : cJobs[k].link < cJobs[k + 1].link
        /\ cJobs # <<>> => cBatch = cJobs

\* Five links: a fetch error, a parse error, a parsed job, an unsuccessful
\* fetch and another parsed job; both jobs are in the batch.
C19_Witness ==
    /\ cpc = "done"
    /\ cNumLinks = 5
    /\ cOutcome[1] = "fetch_error" /\ cOutcome[2] = "parse_error"
    /\ cOutcome[3] = "parsed" /\ cOutcome[4] = "fetch_unsuccessful"
    /\ cOutcome[5] = "parsed"
    /\ Len(cBatch) = 2 /\ cBatch[1].link = 3 /\ cBatch[2].link = 5

\* C20: if the career-page fetch fails or returns a non-success response, the
\* crawl has returned with Success = false, JobsFound = 0 and JobsStored = 0
\* and has scheduled nothing but that fetch.
C20_PageFetchFailureReturnsAtOnce ==
    cResult.ErrorMessage \in {"failed to crawl page", "crawl unsuccessful"} =>
        /\ cpc = "done"
        /\ cRetErr = "nil"
        /\ ~cResult.Success
        /\ cResult.JobsFound = 0 /\ cResult.JobsStored = 0
        /\ cCmds = << <<"CrawlCareerPage", 0>> >>

\* The page fetch failed on its last attempt and the crawl has returned.
C20_Witness ==
    /\ cpc = "done"
    /\ cResult.ErrorMessage = "failed to crawl page"
    /\ Len(cCmds) = 1

\* ------------------------------------------------ Company Discovery claims

\* Number of futures of q that ended in an error.
RECURSIVE Failed(_)
Failed(q) == IF q = <<>> THEN 0 ELSE (IF Head(q).st = "err" THEN 1 ELSE 0) + Failed(Tail(q))

\* C3: when some step-1 source tasks fail, the workflow still goes on, and the
\* company list carried into step 2 and counted in CompaniesFound is exactly the
\* concatenation, in launch order, of the lists the successful sources returned.
C3_PartialFailureTolerance ==
    /\ [](dpc = "step1" => dAllCompanies = ConcatOk(SubSeq(dFut, 1, dGet - 1)))
    /\ [][dpc = "step1" /\ dpc' # "step1" =>
            /\ dAllCompanies' = ConcatOk(dFut)
            /\ dResult'.CompaniesFound = Len(ConcatOk(dFut))
            /\ dpc' \in {"step2", "step4"}]_vars
    /\ [](dpc = "step2" =>
            /\ Len(dFut) = 2 * Len(dAllCompanies)
            /\ \A i \in 1..Len(dAllCompanies) :
                 dFut[2 * i - 1].arg = dAllCompanies[i].Domain /\ dFut[2 * i].arg = dAllCompanies[i].Domain)
    /\ [](dpc \in {"step2", "step3", "step4", "step5", "done"} =>
            dResult.CompaniesFound = Len(dAllCompanies))
    /\ [](dpc = "done" => dRetErr = "nil")

\* 5 sources, 2 of them failed (the first among them), the other 3 succeeded, and
\* the collection loop has got past the failure to the last future.
C3_Witness ==
    /\ dpc = "step1"
    /\ Len(dFut) = 5
    /\ \A i \in 1..5 : dFut[i].st # "pending"
    /\ Failed(dFut) = 2
    /\ dFut[1].st = "err"
    /\ dGet = 5
    /\ Len(dAllCompanies) = 2

\* Children of a fan-out that are running (started and not finished).
InFlight(futs) == {i \in 1..Len(futs) : futs[i].st = "pending"}

\* Number of URL candidates with a given URL.
Candidates(pages, u) == Cardinality({j \in 1..Len(pages) : pages[j].URL = u})

\* C11: when step 5 spawns, one crawl is actually started for every URL
\* candidate of step 2, with that candidate's URL, so that the number of crawls
\* started equals CareerPagesFound; and the workflow returns only when all of
\* them have finished (in a run that is not cancelled).
C11_OneCrawlStartedPerCandidate ==
    /\ [][(dpc = "step4" /\ dpc' # "step4" /\ ~dCancelled) =>
            /\ Cardinality(InFlight(dFut')) = dResult'.CareerPagesFound
            /\ \A u \in URLs :
                 Cardinality({i \in InFlight(dFut') : dFut'[i].arg.URL = u})
                     = Candidates(dAllPages, u)]_vars
    /\ [][(dpc = "step5" /\ dpc' = "done") => InFlight(dFut) = {}]_vars

\* C12: the number of child crawls of one Company Discovery run that are in
\* flight at the same time never exceeds the cap, however many URL candidates
\* there are.
C12_BoundedInFlightCrawls ==
    dpc = "step5" => Cardinality(InFlight(dFut)) <= FanOutCap

\* Two fan-outs launch the same tasks with the same inputs, in the same order.
SameTasks(f, g) ==
    /\ Len(f) = Len(g)
    /\ \A i \in 1..Len(f) : f[i].task = g[i].task /\ f[i].arg = g[i].arg

\* C13: every fan-out step of Company Discovery is a join.  The workflow leaves
\* a step only when every task the step launched has completed with a result
\* or an error; the data it carries on is the concatenation of all the
\* successful results of the step; and the tasks of the next step are launched
\* from exactly that data.
C13_FanOutStepsAreJoins ==
    [][(dpc # dpc' /\ dpc \in {"step1", "step2", "step3", "step4", "step5"}) =>
         /\ InFlight(dFut) = {}
         /\ dpc = "step1" =>
                /\ dAllCompanies' = ConcatOk(dFut)
                /\ dpc' = "step2" => SameTasks(dFut', Step2Futures(ConcatOk(dFut)))
         /\ dpc = "step2" =>
                /\ dAllPages' = ConcatOk(dFut)
                /\ dpc' = "step3" => SameTasks(dFut', Step3Futures(ConcatOk(dFut)))
         /\ dpc' = "step4" => SameTasks(dFut', Step4Futures(dAllPages'))
         /\ dpc' = "step5" =>
                /\ dpc = "step4"
                /\ Len(dFut') = Len(dAllPages)
                /\ \A u \in URLs :
                     Cardinality({i \in 1..Len(dFut') : dFut'[i].arg.URL = u})
                         = Candidates(dAllPages, u)]_vars

\* Step 3 has been launched from the pages of two different step-2 tasks, the
\* career-page task's and the subdomain task's.
C13_Witness ==
    /\ dpc = "step3"
    /\ Len(dAllPages) = 2
    /\ dAllPages[1].PageType = "careers" /\ dAllPages[2].PageType = "subdomain"
    /\ Len(dFut) = 2

\* C15: the child-crawl commands a run issues after the enqueue result are
\* determined by the run's input and recorded results: whichever order the
\* iteration over pagesByCompany takes, the same children are spawned in the
\* same order with the same identifiers and inputs.
C15_SpawnOrderIsReplayDeterministic ==
    (dpc = "step4" /\ dFut[1].st # "pending") =>
        \A o1, o2 \in MapOrders(dAllPages) :
            CrawlChildren(o1, dAllPages, dAllCompanies, {})
                = CrawlChildren(o2, dAllPages, dAllCompanies, {})


\* Sum of a field of the results of the children that succeeded.
RECURSIVE SumOk(_, _)
SumOk(futs, field) ==
    IF futs = <<>> THEN 0
    ELSE (IF Head(futs).st = "ok" THEN Head(futs).val[field] ELSE 0) + SumOk(Tail(futs), field)

\* C4: once the stale-company list has been obtained, a Continuous Discovery run
\* does not return before every spawned child has been awaited, it returns nil
\* whatever number of children failed, and the totals it aggregated are those of
\* all the children that succeeded, including the ones spawned after a failed one.
C4_ChildFailuresNeverAbortRun ==
    /\ (kpc = "awaitChildren") => (kRetErr = "unset")
    /\ (kpc = "done" /\ kListed) =>
         /\ kRetErr = "nil"
         /\ \A i \in 1..Len(kFut) : kFut[i].st # "pending"
         /\ kTotals.Companies = SumOk(kFut, "CompaniesFound")
         /\ kTotals.URLs = SumOk(kFut, "TotalURLsQueued")

\* A run has returned after its first child failed and a later child succeeded
\* with a non-empty result.
C4_Witness ==
    /\ kpc = "done" /\ kListed /\ kRetErr = "nil"
    /\ Len(kFut) >= 2
    /\ kFut[1].st = "err"
    /\ \E i \in 2..Len(kFut) : kFut[i].st = "ok" /\ kFut[i].val.CompaniesFound = 1
    /\ kTotals.Companies >= 1

\* Number of stale-company children spawned for a domain.
StaleChildCount(futs, d) ==
    Cardinality({i \in 1..Len(futs) : futs[i].id[1] = "stale-company" /\ futs[i].id[2] = d})

\* C10: when a run obtains its stale-candidate list, a company whose
\* last-crawled timestamp lies within the staleness threshold is not in the list
\* and gets no stale-company child, and a company whose timestamp is older than
\* the threshold is in the list once and gets exactly one stale-company child.
C10_StalenessFilter ==
    [][(kpc = "awaitStale" /\ kListed') =>
         \A d \in Domains :
            IF now - lastCrawled[d] > kInput.StaleThresholdDays
            THEN /\ Cardinality({i \in 1..Len(kStale') : kStale'[i] = d}) = 1
                 /\ StaleChildCount(kFut', d) = 1
            ELSE /\ \A i \in 1..Len(kStale') : kStale'[i] # d
                 /\ StaleChildCount(kFut', d) = 0]_vars

\* In the second run, one company that the first run stamped is left out while
\* the other, still stale, has its child.
C10_Witness ==
    /\ kRuns = 2 /\ kListed /\ kpc = "awaitChildren"
    /\ \E a, b \in Domains :
         /\ a # b
         /\ lastCrawled[a] > 0
         /\ now - lastCrawled[a] <= kInput.StaleThresholdDays
         /\ \A i \in 1..Len(kStale) : kStale[i] # a
         /\ StaleChildCount(kFut, a) = 0
         /\ \E i \in 1..Len(kStale) : kStale[i] = b
         /\ StaleChildCount(kFut, b) = 1
         /\ now - lastCrawled[b] > kInput.StaleThresholdDays


\* -------------------------------------------------- discovered_urls claims

\* Largest element of a non-empty set of numbers.
MaxOf(S) == CHOOSE x \in S : \A y \in S : y <= x

\* C8: after any sequence of upserts, discovered_urls holds exactly one row for
\* every URL that was upserted (found by its SHA-256 hash) and none for any
\* other, and the row's confidence and priority are each the maximum of the
\* values supplied by the upserts of that URL.
C8_UpsertKeepsOneRowWithMax ==
    \A u \in URLs :
        LET ups  == {e \in qLog : e[1] = u}
            rows == {i \in 1..Len(qRows) : qRows[i].url_hash = Sha256Hex(u)}
        IN  IF ups = {}
            THEN rows = {}
            ELSE /\ Cardinality(rows) = 1
                 /\ \A i \in rows :
                      /\ qRows[i].url = u
                      /\ qRows[i].confidence = MaxOf({e[2] : e \in ups})
                      /\ qRows[i].priority = MaxOf({e[3] : e \in ups})

\* The same URL was upserted with (0.9, 1) and then with (0.5, 2): one row holds
\* confidence 0.9 and priority 2.
C8_Witness ==
    /\ qLog = {<<"u1", 9, 1>>, <<"u1", 5, 2>>}
    /\ Len(qRows) = 1
    /\ qRows[1].confidence = 9 /\ qRows[1].priority = 2
    /\ qpc = "returned" /\ qRet = 2
    /\ Len(qPages) = 2 /\ qPages[1].Confidence = 9 /\ qPages[2].Confidence = 5


\* ------------------------------------------------------- jobs table claims

\* C9: for every job hash that has been written, the jobs table, once its
\* parts are fully merged, retains exactly one record of that hash, and it is a
\* record of the highest version written for the hash so far.
C9_LatestVersionPerJobHash ==
    FullyMerged =>
        \A h \in JobHashes :
            LET written == {r \in jWritten : r.job_hash = h}
                kept    == {r \in jRows : r.job_hash = h}
            IN  written # {} =>
                    /\ Cardinality(kept) = 1
                    /\ \A r \in kept : r.version = MaxOf({x.version : x \in written})


\* ------------------------------------------- Continuous Discovery claims

\* The stale-company child of a domain.
StaleChildOf(futs, d) ==
    {i \in 1..Len(futs) : futs[i].id[1] = "stale-company" /\ futs[i].id[2] = d}

\* C16: for each stale company the discovery child and the timestamp update
\* are started by the same step, neither having waited for the other; from then
\* on the workflow collects a finished child whatever the state of the update,
\* the update runs whatever the state of the child, and a run that has listed
\* its stale companies returns nil even when updates have failed.
C16_ChildAndUpdateIndependent ==
    /\ [][(kpc = "awaitStale" /\ kListed') =>
            \A i \in 1..Len(kStale') :
                /\ kUpd'[kStale'[i]] = "pending"
                /\ \E c \in StaleChildOf(kFut', kStale'[i]) : kFut'[c].st = "pending"]_vars
    /\ []((kpc = "awaitChildren" /\ kFut[kGet].st # "pending") => ENABLED ContCollect)
    /\ []((\E d \in Domains : kUpd[d] = "pending") => ENABLED ContUpdateRuns)
    /\ []((kpc = "done" /\ kListed) => kRetErr = "nil")

\* A run has returned nil: the update of a stale company failed and that
\* company's discovery child succeeded with a result.
C16_Witness ==
    /\ kpc = "done" /\ kListed /\ kRetErr = "nil"
    /\ \E d \in Domains :
         /\ kUpd[d] = "err"
         /\ \E c \in StaleChildOf(kFut, d) :
              kFut[c].st = "ok" /\ kFut[c].val.CompaniesFound = 1

C17_CancelledCrawlReturnsPartialResult ==
    [][(~dCancelled /\ dCancelled') =>
          \A i \in InFlight(dFut) :
              dFut[i].task = "CareerPageCrawlWorkflow" => dFut'[i].st \notin {"canceled", "err"}]_vars

\* ------------------------------------------- Career-Page Crawl claims (2)

\* C21: if link extraction succeeds with an empty list, the crawl has returned
\* with Success = true, JobsFound = 0, JobsStored = 0 and a nil error, and the
\* only activities it ever scheduled are the page fetch and the extraction.
C21_EmptyLinkListIsDone ==
    (cpc \notin {"init", "awaitPage", "awaitLinks"} /\ cNumLinks = 0
        /\ cResult.ErrorMessage = "") =>
        /\ cpc = "done"
        /\ cRetErr = "nil"
        /\ cResult.Success
        /\ cResult.JobsFound = 0 /\ cResult.JobsStored = 0
        /\ cCmds = << <<"CrawlCareerPage", 0>>, <<"ExtractJobLinks", 0>> >>

\* The extraction returned no link and the crawl is over, successfully.
C21_Witness ==
    /\ cpc = "done"
    /\ cNumLinks = 0
    /\ cResult.Success
    /\ Len(cCmds) = 2 /\ cCmds[2][1] = "ExtractJobLinks"

\* Positions of the storage calls among the scheduled activities.
StoreCalls(cmds) == {i \in 1..Len(cmds) : cmds[i][1] = "StoreJobsInClickHouse"}

\* C22: a crawl schedules the storage activity at most once, as its last
\* activity, once every retained link has been dealt with; the call's argument
\* is the whole list of normalized jobs of the page, and after a successful
\* call JobsStored is the count it returned.
C22_SingleStoreCallWithAllJobs ==
    /\ Cardinality(StoreCalls(cCmds)) <= 1
    /\ StoreCalls(cCmds) # {} =>
          /\ StoreCalls(cCmds) = {Len(cCmds)}
          /\ cpc \in {"awaitStore", "done"}
          /\ cIdx = cResult.JobsFound
          /\ \A i \in 1..cResult.JobsFound : cOutcome[i] # "none"
          /\ cBatch = cJobs
          /\ Len(cBatch) = Cardinality(LinksWith("parsed"))
          /\ (cpc = "done" /\ cResult.Success) =>
                cResult.JobsStored = StoreJobsInClickHouse(cBatch)
    /\ (StoreCalls(cCmds) = {} /\ cpc = "done") => cResult.JobsStored = 0

\* Three links, of which two parsed: one storage call with both jobs, and
\* JobsStored = 2.
C22_Witness ==
    /\ cpc = "done"
    /\ cResult.Success
    /\ cResult.JobsFound = 3
    /\ Len(cBatch) = 2
    /\ cResult.JobsStored = 2
    /\ Cardinality(StoreCalls(cCmds)) = 1

\* ------------------------------------------------ company persistence claims

\* C23: once a discovery activity of any source has completed with a list of
\* companies, the companies table holds exactly one row for the domain of
\* every company of that list.
C23_EveryDiscoveredCompanyPersisted ==
    \A i \in 1..Len(coLast.companies) :
        Cardinality({r \in coRows : r.domain = coLast.companies[i].Domain}) = 1

\* ---------------------------------------------------------- trigger claims

ChildrenOfSource(source) == {i \in 1..Len(kFut) : kFut[i].input.Sources = <<source>>}

\* C25: a run that has listed its stale companies has spawned exactly one
\* child per stale company (manual source, query = the domain), exactly one
\* per enabled strategy with that strategy's query and MaxNewCompanies as its
\* bound, none for a disabled strategy, and nothing else.
C25_OneChildPerStaleCompanyAndStrategy ==
    kListed =>
        /\ \A d \in Domains :
             Cardinality({i \in ChildrenOfSource("manual") : kFut[i].input.Query = d})
                 = IF \E i \in 1..Len(kStale) : kStale[i] = d THEN 1 ELSE 0
        /\ Cardinality(ChildrenOfSource("github"))
                 = IF kInput.RunGitHubDiscovery THEN 1 ELSE 0
        /\ Cardinality(ChildrenOfSource("google_dork"))
                 = IF kInput.RunDorkDiscovery THEN 1 ELSE 0
        /\ \A i \in 1..Len(kFut) :
             /\ kFut[i].input.Sources = <<"github">> =>
                  /\ kFut[i].input.Query = kInput.GitHubQuery
                  /\ kFut[i].input.MaxResults = kInput.MaxNewCompanies
             /\ kFut[i].input.Sources = <<"google_dork">> =>
                  /\ kFut[i].input.Query = kInput.DorkQuery
                  /\ kFut[i].input.MaxResults = kInput.MaxNewCompanies
        /\ Len(kFut) = Len(kStale) + (IF kInput.RunGitHubDiscovery THEN 1 ELSE 0)
                                   + (IF kInput.RunDorkDiscovery THEN 1 ELSE 0)

\* Two stale companies, the code-host strategy enabled and dorking disabled:
\* three children.
C25_Witness ==
    /\ kListed
    /\ Len(kStale) = 2
    /\ kInput.RunGitHubDiscovery /\ ~kInput.RunDorkDiscovery
    /\ Len(kFut) = 3
    /\ kFut[3].input.Query = "tech startup"

\* ------------------------------------------- Company Discovery claims (2)

\* C26: the result a Company Discovery run returns carries the number of
\* successful crawls and the number of crawls spawned, the former being the
\* count of children that returned Success = true and at most the latter.
C26_ResultReportsCrawlCounts ==
    (dpc = "done" /\ dRetErr = "nil") =>
        /\ {"CrawlSuccesses", "CrawlTotal"} \subseteq DOMAIN dResult
        /\ dResult.CrawlSuccesses = dCrawlSuccesses
        /\ dResult.CrawlSuccesses <= dResult.CrawlTotal

\* C27: the children spawned by one parent run have pairwise distinct
\* workflow IDs: the crawls of one Company Discovery run, and the
\* stale-company and strategy children of one Continuous Discovery run.
C27_SiblingWorkflowIDsDistinct ==
    /\ dpc = "step5" =>
          \A i, j \in 1..Len(dFut) : i # j => dFut[i].id # dFut[j].id
    /\ \A i, j \in 1..Len(kFut) : i # j => kFut[i].id # kFut[j].id

\* ------------------------------------- Continuous Discovery claims (2)

\* C28: when a run has returned, every timestamp update it scheduled has
\* completed, with success or with its final failure.
C28_UpdatesCompleteBeforeReturn ==
    kpc = "done" =>
        \A i \in 1..Len(kStale) : kUpd[kStale[i]] \in {"ok", "err"}

\* C29: if QueueURLsForCrawling fails, the run goes on: TotalURLsQueued is 0,
\* step 5 issues one crawl spawn per URL candidate (with that candidate's URL),
\* the run returns only when every one of them has been awaited, and it
\* returns its result with a nil error.
C29_EnqueueFailureDoesNotAbort ==
    /\ [](dQueueErrLogged =>
            /\ dResult.TotalURLsQueued = 0
            /\ dRetErr # "error"
            /\ dpc \in {"step5", "done"}
            /\ dpc = "step5" =>
                  /\ Len(dFut) = Len(dAllPages)
                  /\ \A u \in URLs :
                       Cardinality({i \in 1..Len(dFut) : dFut[i].arg.URL = u})
                           = Candidates(dAllPages, u)
            /\ dpc = "done" => dRetErr = "nil")
    /\ [][(dQueueErrLogged /\ dpc = "step5" /\ dpc' = "done") =>
            (InFlight(dFut) = {} /\ dGet = Len(dFut))]_vars

\* The enqueue failed, two crawls were spawned and collected, and the run has
\* returned nil with TotalURLsQueued = 0 and one successful crawl counted.
C29_Witness ==
    /\ dQueueErrLogged
    /\ dpc = "done"
    /\ dRetErr = "nil"
    /\ Len(dAllPages) = 2
    /\ dResult.CareerPagesFound = 2
    /\ dResult.TotalURLsQueued = 0
    /\ dCrawlSuccesses = 1

\* C30: the step that ends the stale-company lookup without a list does so
\* after the third failed attempt, and it returns the error with no child
\* spawned and no timestamp update scheduled; a run that returned an error
\* never spawned or scheduled anything.
C30_LookupErrorPropagates ==
    /\ [][(kpc = "awaitStale" /\ kpc' # "awaitStale" /\ ~kListed') =>
            /\ kAttempt = MaximumAttempts
            /\ kpc' = "done" /\ kRetErr' = "error"
            /\ kStale' = <<>> /\ kFut' = <<>> /\ kUpd' = NoUpdates]_vars
    /\ [](kRetErr = "error" => (kStale = <<>> /\ kFut = <<>> /\ kUpd = NoUpdates))

\* The second run's lookup failed for good with both strategies enabled: the
\* run returned the error and has no child.
C30_Witness ==
    /\ kRuns = 2
    /\ kpc = "done"
    /\ kRetErr = "error"
    /\ kInput.RunGitHubDiscovery /\ kInput.RunDorkDiscovery
    /\ kFut = <<>>

\* ------------------------------------------------------- worker claims

\* C31: every Company Discovery run eventually returns its result.
C31_EveryRunReturns == <>(dpc = "done")

\* ------------------------------------------------------ upsert claims (2)

\* C32: an upsert of a URL that is already stored changes nothing but the
\* confidence and the priority of that URL's row: the row keeps its id, company,
\* page type, platform, crawl status and discovery channel, every other row is
\* untouched, and no row is added.
C32_UpsertFrame ==
    (tCount > 0 /\ \E i \in 1..Len(tPrev) : tPrev[i].url_hash = tRow.url_hash) =>
        /\ Len(tRows) = Len(tPrev)
        /\ \A i \in 1..Len(tPrev) :
             IF tPrev[i].url_hash = tRow.url_hash
             THEN tRows[i] = [tPrev[i] EXCEPT !.confidence = tRows[i].confidence,
                                              !.priority = tRows[i].priority]
             ELSE tRows[i] = tPrev[i]

\* A row stored by another channel for another company, already crawled, is
\* upserted with a higher confidence, another page type and platform: only the
\* confidence has changed.
C32_Witness ==
    /\ tCount = 1
    /\ Len(tPrev) = 2
    /\ tPrev[1].url = "u1" /\ tRow.url = "u1"
    /\ tPrev[1].crawl_status = "completed" /\ tPrev[1].discovered_via = "manual"
    /\ tPrev[1].company_id = "NULL" /\ tRow.company_id = "1"
    /\ tPrev[1].page_type = "jobs" /\ tRow.page_type = "careers"
    /\ tPrev[1].confidence = 5 /\ tRow.confidence = 9
    /\ tRows[1].confidence = 9
    /\ tRows[1].crawl_status = "completed"

\* C33: when QueueURLsForCrawling returns, every candidate of its input has
\* been attempted and the returned count is the number of candidates whose
\* upsert succeeded.
C33_ReturnCountsSucceededUpserts ==
    qpc = "returned" =>
        /\ qIdx = Len(qPages) + 1
        /\ qRet = qUpserts
        /\ qRet \in 0..Len(qPages)

\* ------------------------------------------------------ proxy manager claims

\* C34: a proxy returned by GetNextProxy or GetProxyByCountry has IsHealthy
\* true at the time of the return.
C34_ReturnedProxyIsHealthy ==
    lastRet.proxy # -1 => lastRet.IsHealthy

\* C35: while every proxy of the list is eligible, each GetNextProxy call
\* returns the proxy after the one the previous call returned, in cyclic list
\* order, so NumProxies consecutive calls return every proxy exactly once.
C35_RoundRobinOrder ==
    /\ \A k \in 2..Len(returns) :
         returns[k].allEligible => returns[k].proxy = (returns[k - 1].proxy + 1) % NumProxies
    /\ \A k \in 1..(Len(returns) - NumProxies + 1) :
         (\A j \in (k + 1)..(k + NumProxies - 1) : returns[j].allEligible) =>
             {returns[j].proxy : j \in k..(k + NumProxies - 1)} = ProxyIdx

\* Three calls on a list whose proxies were all eligible throughout went round
\* the list and came back.
C35_Witness ==
    /\ Len(returns) = 3
    /\ \A k \in 1..3 : returns[k].allEligible
    /\ returns[1].proxy = returns[3].proxy
    /\ returns[1].proxy # returns[2].proxy

\* C36: whenever a goroutine is about to read or write a field of a proxy it
\* holds the manager's lock, and the exclusive lock if it writes; the
\* health-check goroutines take no lock, so they must have no access pending.
C36_AccessesHoldLock ==
    /\ \A h \in Handlers : \A a \in HandlerAccesses(h) :
         /\ Holds(h) # "none"
         /\ a.mode = "write" => Holds(h) = "exclusive"
    /\ \A i \in ProxyIdx : HealthAccesses(i) = {}

\* C37: a proxy with 3 MarkProxyFailure calls since its last recorded success
\* is unhealthy and is not returned by GetNextProxy or GetProxyByCountry.
C37_ThreeFailuresExclude ==
    /\ \A i \in ProxyIdx : marked[i] >= FailLimit => ~proxies[i].IsHealthy
    /\ lastRet.proxy # -1 => lastRet.marked < FailLimit

\* --------------------------------------------------- crawl coordinator claims

====
